---- MODULE Spec2Model ----
(***************************************************************************)
(* Layered platform-chain state of lasthyphen/tester2: a chain of diffs    *)
(* (state/camino_diff.go, src/unnamed/part_002) over the base state, the   *)
(* registry of live states (StateVersions), and ApplyCaminoState.          *)
(***************************************************************************)
EXTENDS Integers, Sequences, FiniteSets, TLC

\* Number of setter calls issued on diffs in one behaviour.
MaxOps == 2
\* Number of consecutive ApplyCaminoState calls of one diff that are counted.
MaxApplies == 2

(***************************************************************************)
(* Value domains.  Pointers are sequences of length 0 (nil) or 1.          *)
(***************************************************************************)
Nil == <<>>
Ptr(v) == <<v>>
Deref(p) == p[1]

GenesisID == "b0"
DiffIDs == {"b1", "b2"}
StateIDs == {GenesisID} \cup DiffIDs
NoDiff == "none"
BaseState == "base"
MissingState == "missing"

ShortIDs == {"a1", "a2"}
ShortEmpty == "empty"
AddressStateValues == {1, 2}
OfferIDs == {"o1", "o2"}
OfferFlagValues == {0, 1}
Offers == [ID : OfferIDs, Flags : OfferFlagValues]
DepositTxIDs == 1 .. 2
Deposits == [Start : {1}, Duration : 1 .. 3, UnlockedAmount : 0 .. 1]
AliasMemos == {"m1", "m2"}
Aliases == [ID : ShortIDs, Memo : AliasMemos]
ShortLinkKeys == {0}
OwnerIDs == {"w1", "w2"}
Claimables == [ValidatorReward : {25}]
RewardValues == {1, 2}
SubnetIDs == {"primary"}
NodeIDs == {"n1", "n2"}
Stakers == [SubnetID : SubnetIDs, NodeID : NodeIDs, Weight : 1 .. 2]

\* UTXOs: an output is a plain secp output or a locked.Out carrying the ids
\* of the deposit and bond transactions that lock it (ids.Empty for none).
UTXOIDs == {"u1", "u2", "u3"}
IDEmpty == "empty"
StateUnlocked == "Unlocked"
StateDeposited == "Deposited"
StateBonded == "Bonded"
StateDepositedBonded == "DepositedBonded"
LockStates == {StateUnlocked, StateDeposited, StateBonded, StateDepositedBonded}
LockTxIDs == {"t1", "t2"}
LockIDs == [DepositTxID : {"t1", IDEmpty}, BondTxID : {"t2", IDEmpty}]
SecpOut(addr) == [locked |-> FALSE, IDs |-> [DepositTxID |-> IDEmpty, BondTxID |-> IDEmpty],
                  addr |-> addr]
LockedOut(lockIDs, addr) == [locked |-> TRUE, IDs |-> lockIDs, addr |-> addr]
Outs == {SecpOut("a1")} \cup {LockedOut(l, "a1") : l \in LockIDs}
UTXOs == [id : UTXOIDs, out : Outs]

Timestamps == {1, 2}

ErrNil == "nil"
ErrNotFound == "ErrNotFound"
ErrMissingParentState == "ErrMissingParentState"

\* mockable.MaxTime, the "no deposit" time of the next-to-unlock queries.
MaxTime == 99

Result(v, e) == [val |-> v, err |-> e]

\* Go map update m[k] = v on a map held as a function with a partial domain.
MapSet(m, k, v) == (k :> v) @@ m
MapDelete(m, k) == [x \in (DOMAIN m) \ {k} |-> m[x]]

VARIABLES
    base,           \* the base State (the last accepted state)
    diffs,          \* diff id -> the diff object (parentID and caminoDiff)
    processing,     \* StateVersions: ids of the live (verified, not accepted) diffs
    lastAccepted,   \* StateVersions: the id that resolves to the base state
    applied,        \* the diff whose ApplyCaminoState ran last, NoDiff once anything else changed
    applyCount,     \* how many times in a row it ran
    written,        \* history: diff id -> key slot -> latest setter argument and call count
    nops,           \* number of setter calls so far
    published,      \* history: the diffs ApplyCaminoState has written onto base
    applyCall,      \* the ApplyCaminoState call in progress: diff, loop position, log
    observed,       \* the base state as the last service read saw it
    committed,      \* history: the base states before the first and after the last
                    \* write of every apply call
    chain,          \* what the transaction builder reads: config, UTXOs, deposits, shared memory
    built,          \* the builder call made: method, arguments and what it returned
    reply,          \* the RPC handler call made: request, keys, owners and what it returned
    mempool,        \* the txs handed to Builder.AddUnverifiedTx
    info            \* the info service: its GenesisBytes and the calls of its logger

applyVars == <<applyCall, observed, committed>>
builderVars == <<chain, built>>
serviceVars == <<reply, mempool>>

vars == <<base, diffs, processing, lastAccepted, applied, applyCount, written, nops,
          published, applyVars, builderVars, serviceVars, info>>

(***************************************************************************)
(* deposit.Deposit.EndTime and the short-link key encoding.                *)
(***************************************************************************)
EndTime(deposit) == deposit.Start + deposit.Duration

\* toShortLinkKey copies the 20 address bytes and appends the key byte.
toShortLinkKey(id, key) == <<id, key>>
fromShortLinkKey(fullKey) == [id |-> fullKey[1], key |-> fullKey[2]]

(***************************************************************************)
(* The base state: plain keyed stores with the State setter/getter surface.*)
(***************************************************************************)
BaseGetAddressStates(b, address) ==
    IF address \in DOMAIN b.addressStates
    THEN Result(b.addressStates[address], ErrNil)
    ELSE Result(0, ErrNil)

BaseGetDepositOffer(b, offerID) ==
    IF offerID \in DOMAIN b.depositOffers
    THEN Result(Ptr(b.depositOffers[offerID]), ErrNil)
    ELSE Result(Nil, ErrNotFound)

BaseGetDeposit(b, depositTxID) ==
    IF depositTxID \in DOMAIN b.deposits
    THEN Result(Ptr(b.deposits[depositTxID]), ErrNil)
    ELSE Result(Nil, ErrNotFound)

BaseGetMultisigAlias(b, alias) ==
    IF alias \in DOMAIN b.multisigAliases
    THEN Result(Ptr(b.multisigAliases[alias]), ErrNil)
    ELSE Result(Nil, ErrNotFound)

BaseGetShortIDLink(b, id, key) ==
    IF toShortLinkKey(id, key) \in DOMAIN b.shortLinks
    THEN Result(b.shortLinks[toShortLinkKey(id, key)], ErrNil)
    ELSE Result(ShortEmpty, ErrNotFound)

BaseGetClaimable(b, ownerID) ==
    IF ownerID \in DOMAIN b.claimables
    THEN Result(Ptr(b.claimables[ownerID]), ErrNil)
    ELSE Result(Nil, ErrNotFound)

BaseGetNotDistributedValidatorReward(b) ==
    Result(b.notDistributedValidatorReward, ErrNil)

BaseGetDeferredValidator(b, subnetID, nodeID) ==
    IF <<subnetID, nodeID>> \in DOMAIN b.deferredValidators
    THEN Result(Ptr(b.deferredValidators[<<subnetID, nodeID>>]), ErrNil)
    ELSE Result(Nil, ErrNotFound)

BaseSetAddressStates(b, address, states) ==
    [b EXCEPT !.addressStates = MapSet(@, address, states)]

BaseSetDepositOffer(b, offer) ==
    [b EXCEPT !.depositOffers = MapSet(@, Deref(offer).ID, Deref(offer))]

BaseAddDeposit(b, depositTxID, deposit) ==
    [b EXCEPT !.deposits = MapSet(@, depositTxID, Deref(deposit))]

BaseModifyDeposit(b, depositTxID, deposit) ==
    [b EXCEPT !.deposits = MapSet(@, depositTxID, Deref(deposit))]

BaseRemoveDeposit(b, depositTxID, deposit) ==
    [b EXCEPT !.deposits = MapDelete(@, depositTxID)]

BaseSetMultisigAlias(b, owner) ==
    [b EXCEPT !.multisigAliases = MapSet(@, Deref(owner).ID, Deref(owner))]

BaseSetShortIDLink(b, id, key, link) ==
    IF link = Nil
    THEN [b EXCEPT !.shortLinks = MapDelete(@, toShortLinkKey(id, key))]
    ELSE [b EXCEPT !.shortLinks = MapSet(@, toShortLinkKey(id, key), Deref(link))]

BaseSetClaimable(b, ownerID, claimable) ==
    IF claimable = Nil
    THEN [b EXCEPT !.claimables = MapDelete(@, ownerID)]
    ELSE [b EXCEPT !.claimables = MapSet(@, ownerID, Deref(claimable))]

BaseSetNotDistributedValidatorReward(b, reward) ==
    [b EXCEPT !.notDistributedValidatorReward = reward]

BasePutDeferredValidator(b, staker) ==
    [b EXCEPT !.deferredValidators = MapSet(@, <<staker.SubnetID, staker.NodeID>>, staker)]

BaseDeleteDeferredValidator(b, staker) ==
    [b EXCEPT !.deferredValidators = MapDelete(@, <<staker.SubnetID, staker.NodeID>>)]

(***************************************************************************)
(* StateVersions and the diff object.                                      *)
(***************************************************************************)
\* Versions.GetState: a live diff, the base state for the last accepted id,
\* or nothing.
GetState(id) ==
    IF id \in processing THEN id
    ELSE IF id = lastAccepted THEN BaseState
    ELSE MissingState

newCaminoDiff ==
    [ modifiedAddressStates |-> <<>>,
      modifiedDepositOffers |-> <<>>,
      modifiedDeposits |-> <<>>,
      modifiedMultisigOwners |-> <<>>,
      modifiedShortLinks |-> <<>>,
      modifiedClaimables |-> <<>>,
      modifiedNotDistributedValidatorReward |-> Nil,
      validatorDiffs |-> <<>> ]

\* The result of NewCaminoDiff when the parent resolves.
\* State.GetTimestamp: the base state's chain time, a diff's own timestamp.
GetTimestamp(s) == IF s = BaseState THEN base.timestamp ELSE diffs[s].timestamp

NewDiffObject(parentID) ==
    [ parentID |-> parentID,
      timestamp |-> GetTimestamp(GetState(parentID)),
      caminoDiff |-> newCaminoDiff,
      modifiedUTXOs |-> <<>> ]

\* What NewCaminoDiff(parentID, stateVersions) returns.
NewCaminoDiffReturn(parentID) ==
    IF GetState(parentID) = MissingState
    THEN Result(Nil, ErrMissingParentState)
    ELSE Result(Ptr(NewDiffObject(parentID)), ErrNil)

depositDiff(deposit, added, removed) ==
    [ Deposit |-> deposit, added |-> added, removed |-> removed ]

\* diffStakers.PutValidator / DeleteValidator / GetValidator on validatorDiffs.
PutValidator(validatorDiffs, staker) ==
    MapSet(validatorDiffs, <<staker.SubnetID, staker.NodeID>>,
           [validatorModified |-> TRUE, validatorDeleted |-> FALSE, validator |-> staker])

DeleteValidator(validatorDiffs, staker) ==
    MapSet(validatorDiffs, <<staker.SubnetID, staker.NodeID>>,
           [validatorModified |-> TRUE, validatorDeleted |-> TRUE, validator |-> staker])

\* <<staker or nil, ok>>
GetValidator(validatorDiffs, subnetID, nodeID) ==
    IF <<subnetID, nodeID>> \in DOMAIN validatorDiffs
       /\ validatorDiffs[<<subnetID, nodeID>>].validatorModified
    THEN IF validatorDiffs[<<subnetID, nodeID>>].validatorDeleted
         THEN <<Nil, TRUE>>
         ELSE <<Ptr(validatorDiffs[<<subnetID, nodeID>>].validator), TRUE>>
    ELSE <<Nil, FALSE>>

(***************************************************************************)
(* Getters of a state s: the base state or a live diff.  A diff consults   *)
(* its own modifications, then the state its parentID resolves to.         *)
(***************************************************************************)
RECURSIVE GetAddressStates(_, _)
GetAddressStates(s, address) ==
    IF s = BaseState THEN BaseGetAddressStates(base, address)
    ELSE IF address \in DOMAIN diffs[s].caminoDiff.modifiedAddressStates
    THEN Result(diffs[s].caminoDiff.modifiedAddressStates[address], ErrNil)
    ELSE IF GetState(diffs[s].parentID) = MissingState
    THEN Result(0, ErrMissingParentState)
    ELSE GetAddressStates(GetState(diffs[s].parentID), address)

RECURSIVE GetDepositOffer(_, _)
GetDepositOffer(s, offerID) ==
    IF s = BaseState THEN BaseGetDepositOffer(base, offerID)
    ELSE IF offerID \in DOMAIN diffs[s].caminoDiff.modifiedDepositOffers
    THEN Result(diffs[s].caminoDiff.modifiedDepositOffers[offerID], ErrNil)
    ELSE IF GetState(diffs[s].parentID) = MissingState
    THEN Result(Nil, ErrMissingParentState)
    ELSE GetDepositOffer(GetState(diffs[s].parentID), offerID)

RECURSIVE GetDeposit(_, _)
\* Variant: the removed flag of a deposit diff is not looked at.
GetDeposit_IgnoreRemoved(s, depositTxID) ==
    IF s = BaseState THEN BaseGetDeposit(base, depositTxID)
    ELSE IF depositTxID \in DOMAIN diffs[s].caminoDiff.modifiedDeposits
    THEN Result(diffs[s].caminoDiff.modifiedDeposits[depositTxID].Deposit, ErrNil)
    ELSE IF GetState(diffs[s].parentID) = MissingState
    THEN Result(Nil, ErrMissingParentState)
    ELSE GetDeposit(GetState(diffs[s].parentID), depositTxID)

GetDeposit(s, depositTxID) ==
    IF s = BaseState THEN BaseGetDeposit(base, depositTxID)
    ELSE IF depositTxID \in DOMAIN diffs[s].caminoDiff.modifiedDeposits
    THEN IF diffs[s].caminoDiff.modifiedDeposits[depositTxID].removed
         THEN Result(Nil, ErrNotFound)
         ELSE Result(diffs[s].caminoDiff.modifiedDeposits[depositTxID].Deposit, ErrNil)
    ELSE IF GetState(diffs[s].parentID) = MissingState
    THEN Result(Nil, ErrMissingParentState)
    ELSE GetDeposit(GetState(diffs[s].parentID), depositTxID)

RECURSIVE GetMultisigAlias(_, _)
GetMultisigAlias(s, alias) ==
    IF s = BaseState THEN BaseGetMultisigAlias(base, alias)
    ELSE IF alias \in DOMAIN diffs[s].caminoDiff.modifiedMultisigOwners
    THEN IF diffs[s].caminoDiff.modifiedMultisigOwners[alias] = Nil
         THEN Result(Nil, ErrNotFound)
         ELSE Result(diffs[s].caminoDiff.modifiedMultisigOwners[alias], ErrNil)
    ELSE IF GetState(diffs[s].parentID) = MissingState
    THEN Result(Nil, ErrMissingParentState)
    ELSE GetMultisigAlias(GetState(diffs[s].parentID), alias)

RECURSIVE GetShortIDLink(_, _, _)
GetShortIDLink(s, id, key) ==
    IF s = BaseState THEN BaseGetShortIDLink(base, id, key)
    ELSE IF toShortLinkKey(id, key) \in DOMAIN diffs[s].caminoDiff.modifiedShortLinks
    THEN IF diffs[s].caminoDiff.modifiedShortLinks[toShortLinkKey(id, key)] = Nil
         THEN Result(ShortEmpty, ErrNotFound)
         ELSE Result(Deref(diffs[s].caminoDiff.modifiedShortLinks[toShortLinkKey(id, key)]), ErrNil)
    ELSE IF GetState(diffs[s].parentID) = MissingState
    THEN Result(ShortEmpty, ErrMissingParentState)
    ELSE GetShortIDLink(GetState(diffs[s].parentID), id, key)

\* Variant: a key the diff has not modified is reported missing instead of
\* being looked up in the parent.
GetClaimable_NoParent(s, ownerID) ==
    IF s = BaseState THEN BaseGetClaimable(base, ownerID)
    ELSE IF ownerID \in DOMAIN diffs[s].caminoDiff.modifiedClaimables
    THEN IF diffs[s].caminoDiff.modifiedClaimables[ownerID] = Nil
         THEN Result(Nil, ErrNotFound)
         ELSE Result(diffs[s].caminoDiff.modifiedClaimables[ownerID], ErrNil)
    ELSE Result(Nil, ErrNotFound)

RECURSIVE GetClaimable(_, _)
GetClaimable(s, ownerID) ==
    IF s = BaseState THEN BaseGetClaimable(base, ownerID)
    ELSE IF ownerID \in DOMAIN diffs[s].caminoDiff.modifiedClaimables
    THEN IF diffs[s].caminoDiff.modifiedClaimables[ownerID] = Nil
         THEN Result(Nil, ErrNotFound)
         ELSE Result(diffs[s].caminoDiff.modifiedClaimables[ownerID], ErrNil)
    ELSE IF GetState(diffs[s].parentID) = MissingState
    THEN Result(Nil, ErrMissingParentState)
    ELSE GetClaimable(GetState(diffs[s].parentID), ownerID)

RECURSIVE GetNotDistributedValidatorReward(_)
GetNotDistributedValidatorReward(s) ==
    IF s = BaseState THEN BaseGetNotDistributedValidatorReward(base)
    ELSE IF diffs[s].caminoDiff.modifiedNotDistributedValidatorReward # Nil
    THEN Result(Deref(diffs[s].caminoDiff.modifiedNotDistributedValidatorReward), ErrNil)
    ELSE IF GetState(diffs[s].parentID) = MissingState
    THEN Result(0, ErrMissingParentState)
    ELSE GetNotDistributedValidatorReward(GetState(diffs[s].parentID))

RECURSIVE GetDeferredValidator(_, _, _)
GetDeferredValidator(s, subnetID, nodeID) ==
    IF s = BaseState THEN BaseGetDeferredValidator(base, subnetID, nodeID)
    ELSE IF GetValidator(diffs[s].caminoDiff.validatorDiffs, subnetID, nodeID)[2]
    THEN IF GetValidator(diffs[s].caminoDiff.validatorDiffs, subnetID, nodeID)[1] = Nil
         THEN Result(Nil, ErrNotFound)
         ELSE Result(GetValidator(diffs[s].caminoDiff.validatorDiffs, subnetID, nodeID)[1], ErrNil)
    ELSE IF GetState(diffs[s].parentID) = MissingState
    THEN Result(Nil, ErrMissingParentState)
    ELSE GetDeferredValidator(GetState(diffs[s].parentID), subnetID, nodeID)

(***************************************************************************)
(* Next deposits to unlock.  The caller's removedDepositIDs set is shared  *)
(* with the callee, so every result carries the set as the call left it.   *)
(***************************************************************************)
\* time.Time{}, returned next to a hard error
ZeroTime == 0

MinTime(times) == CHOOSE t \in times : \A u \in times : t <= u

RECURSIVE SetToSeq(_)
SetToSeq(S) ==
    IF S = {} THEN <<>>
    ELSE LET x == CHOOSE y \in S : TRUE IN <<x>> \o SetToSeq(S \ {x})

\* utils.Sort on a slice of ids
RECURSIVE Sort(_)
Sort(s) ==
    IF s = <<>> THEN <<>>
    ELSE LET i == CHOOSE j \in 1 .. Len(s) : \A k \in 1 .. Len(s) : s[j] <= s[k]
         IN  <<s[i]>> \o Sort(SubSeq(s, 1, i - 1) \o SubSeq(s, i + 1, Len(s)))

NextToUnlock(depositIDs, unlockTime, e, removedDepositIDs) ==
    [ ids |-> depositIDs, time |-> unlockTime, err |-> e, removed |-> removedDepositIDs ]

\* The base state: the earliest end time over its deposits outside the set,
\* and their ids in ascending order; NotFound with MaxTime when there is none.
BaseGetNextToUnlockDepositIDsAndTime(b, removedDepositIDs) ==
    LET live == {id \in DOMAIN b.deposits : id \notin removedDepositIDs}
        nextUnlockTime == MinTime({EndTime(b.deposits[id]) : id \in live})
    IN  IF live = {}
        THEN NextToUnlock(<<>>, MaxTime, ErrNotFound, removedDepositIDs)
        ELSE NextToUnlock(
                 Sort(SetToSeq({id \in live : EndTime(b.deposits[id]) = nextUnlockTime})),
                 nextUnlockTime, ErrNil, removedDepositIDs)

\* Variant: the set handed to the parent holds the diff's removed ids only.
RECURSIVE GetNextToUnlockDepositIDsAndTime_FreshSet(_, _)
GetNextToUnlockDepositIDsAndTime_FreshSet(s, removedDepositIDs) ==
    IF s = BaseState THEN BaseGetNextToUnlockDepositIDsAndTime(base, removedDepositIDs)
    ELSE IF GetState(diffs[s].parentID) = MissingState
    THEN NextToUnlock(<<>>, ZeroTime, ErrMissingParentState, removedDepositIDs)
    ELSE
      LET modifiedDeposits == diffs[s].caminoDiff.modifiedDeposits
          parent == GetNextToUnlockDepositIDsAndTime_FreshSet(
                        GetState(diffs[s].parentID),
                        {id \in DOMAIN modifiedDeposits : modifiedDeposits[id].removed})
          added == {id \in DOMAIN modifiedDeposits :
                        /\ modifiedDeposits[id].added
                        /\ id \notin parent.removed}
          nextUnlockTime ==
              MinTime({parent.time} \cup
                      {EndTime(Deref(modifiedDeposits[id].Deposit)) : id \in added})
          parentNextDepositIDs ==
              IF ~(parent.time > nextUnlockTime) THEN parent.ids ELSE <<>>
          tied == {id \in added :
                        EndTime(Deref(modifiedDeposits[id].Deposit)) = nextUnlockTime}
      IN  IF parent.err # ErrNil /\ parent.err # ErrNotFound
          THEN NextToUnlock(<<>>, ZeroTime, parent.err, parent.removed)
          ELSE IF nextUnlockTime = MaxTime
          THEN NextToUnlock(<<>>, MaxTime, ErrNotFound, parent.removed)
          ELSE IF tied = {}
          THEN NextToUnlock(parentNextDepositIDs, nextUnlockTime, ErrNil, parent.removed)
          ELSE NextToUnlock(Sort(parentNextDepositIDs \o SetToSeq(tied)),
                            nextUnlockTime, ErrNil, parent.removed)

RECURSIVE GetNextToUnlockDepositIDsAndTime(_, _)
GetNextToUnlockDepositIDsAndTime(s, removedDepositIDs) ==
    IF s = BaseState THEN BaseGetNextToUnlockDepositIDsAndTime(base, removedDepositIDs)
    ELSE IF GetState(diffs[s].parentID) = MissingState
    THEN NextToUnlock(<<>>, ZeroTime, ErrMissingParentState, removedDepositIDs)
    ELSE
      LET modifiedDeposits == diffs[s].caminoDiff.modifiedDeposits
          parent == GetNextToUnlockDepositIDsAndTime(
                        GetState(diffs[s].parentID),
                        removedDepositIDs \cup
                            {id \in DOMAIN modifiedDeposits : modifiedDeposits[id].removed})
          added == {id \in DOMAIN modifiedDeposits :
                        /\ modifiedDeposits[id].added
                        /\ id \notin parent.removed}
          nextUnlockTime ==
              MinTime({parent.time} \cup
                      {EndTime(Deref(modifiedDeposits[id].Deposit)) : id \in added})
          parentNextDepositIDs ==
              IF ~(parent.time > nextUnlockTime) THEN parent.ids ELSE <<>>
          tied == {id \in added :
                        EndTime(Deref(modifiedDeposits[id].Deposit)) = nextUnlockTime}
      IN  IF parent.err # ErrNil /\ parent.err # ErrNotFound
          THEN NextToUnlock(<<>>, ZeroTime, parent.err, parent.removed)
          ELSE IF nextUnlockTime = MaxTime
          THEN NextToUnlock(<<>>, MaxTime, ErrNotFound, parent.removed)
          ELSE IF tied = {}
          THEN NextToUnlock(parentNextDepositIDs, nextUnlockTime, ErrNil, parent.removed)
          ELSE NextToUnlock(Sort(parentNextDepositIDs \o SetToSeq(tied)),
                            nextUnlockTime, ErrNil, parent.removed)

(***************************************************************************)
(* Locked UTXOs.  A Go map is ranged in an unspecified order, so a query   *)
(* has a set of possible answers: the lists it may return.                 *)
(***************************************************************************)
\* locked.IDs.Match
Match(lockIDs, lockState, txIDs) ==
    CASE lockState = StateDeposited -> lockIDs.DepositTxID \in txIDs
      [] lockState = StateBonded -> lockIDs.BondTxID \in txIDs
      [] lockState = StateDepositedBonded ->
            lockIDs.BondTxID \in txIDs \/ lockIDs.DepositTxID \in txIDs
      [] OTHER -> FALSE

\* diff.AddUTXO and diff.DeleteUTXO: an entry with the UTXO, or with none.
utxoModification(utxoID, utxo) == [utxoID |-> utxoID, utxo |-> utxo]

\* diff.SetTimestamp
SetTimestamp(d, timestamp) ==
    /\ diffs' = [diffs EXCEPT ![d].timestamp = timestamp]
    /\ base' = base

AddUTXO(d, utxo) ==
    /\ diffs' = [diffs EXCEPT ![d].modifiedUTXOs =
                    MapSet(@, utxo.id, utxoModification(utxo.id, Ptr(utxo)))]
    /\ base' = base

DeleteUTXO(d, utxoID) ==
    /\ diffs' = [diffs EXCEPT ![d].modifiedUTXOs =
                    MapSet(@, utxoID, utxoModification(utxoID, Nil))]
    /\ base' = base

RECURSIVE Orderings(_)
Orderings(S) ==
    IF S = {} THEN {<<>>}
    ELSE UNION {{<<x>> \o t : t \in Orderings(S \ {x})} : x \in S}

\* The order in which the base state lists UTXOs.
UTXOIDSeq == <<"u1", "u2", "u3">>

RECURSIVE SeqMap(_, _)
SeqMap(F(_), q) == IF q = <<>> THEN <<>> ELSE <<F(Head(q))>> \o SeqMap(F, Tail(q))

\* The base state: its locked UTXOs owned by one of the addresses whose lock
\* ids match.
BaseLockedUTXOs(b, txIDs, addresses, lockState) ==
    LET Listed(id) ==
            /\ id \in DOMAIN b.utxos
            /\ b.utxos[id].out.locked
            /\ b.utxos[id].out.addr \in addresses
            /\ Match(b.utxos[id].out.IDs, lockState, txIDs)
        UTXOOf(id) == b.utxos[id]
    IN  [utxos |-> {SeqMap(UTXOOf, SelectSeq(UTXOIDSeq, Listed))}, err |-> ErrNil]

\* Step 1 of diff.LockedUTXOs on one answer of the parent: entries the diff
\* modified are dropped when deleted and replaced in place otherwise.
RECURSIVE UpdateExisting(_, _)
UpdateExisting(modifiedUTXOs, retUtxos) ==
    IF retUtxos = <<>> THEN <<>>
    ELSE IF Head(retUtxos).id \in DOMAIN modifiedUTXOs
    THEN IF modifiedUTXOs[Head(retUtxos).id].utxo = Nil
         THEN UpdateExisting(modifiedUTXOs, Tail(retUtxos))
         ELSE <<Deref(modifiedUTXOs[Head(retUtxos).id].utxo)>> \o
              UpdateExisting(modifiedUTXOs, Tail(retUtxos))
    ELSE <<Head(retUtxos)>> \o UpdateExisting(modifiedUTXOs, Tail(retUtxos))

\* Step 2: the diff's UTXOs not met in step 1 that are locked and match.
AppendNew(modifiedUTXOs, retUtxos, txIDs, lockState) ==
    LET remaining == DOMAIN modifiedUTXOs \ {retUtxos[i].id : i \in 1 .. Len(retUtxos)}
    IN  {Deref(modifiedUTXOs[utxoID].utxo) : utxoID \in
            {id \in remaining :
                /\ modifiedUTXOs[id].utxo # Nil
                /\ Deref(modifiedUTXOs[id].utxo).out.locked
                /\ Match(Deref(modifiedUTXOs[id].utxo).out.IDs, lockState, txIDs)}}

RECURSIVE LockedUTXOs(_, _, _, _)
LockedUTXOs(s, txIDs, addresses, lockState) ==
    IF s = BaseState THEN BaseLockedUTXOs(base, txIDs, addresses, lockState)
    ELSE IF GetState(diffs[s].parentID) = MissingState
    THEN [utxos |-> {}, err |-> ErrMissingParentState]
    ELSE
      LET parent == LockedUTXOs(GetState(diffs[s].parentID), txIDs, addresses, lockState)
          modifiedUTXOs == diffs[s].modifiedUTXOs
      IN  IF parent.err # ErrNil
          THEN [utxos |-> {}, err |-> parent.err]
          ELSE [utxos |->
                    UNION {{UpdateExisting(modifiedUTXOs, retUtxos) \o new :
                                new \in Orderings(AppendNew(modifiedUTXOs, retUtxos,
                                                            txIDs, lockState))} :
                           retUtxos \in parent.utxos},
                err |-> ErrNil]

(***************************************************************************)
(* Queries a diff always forwards to its parent.                           *)
(***************************************************************************)
RECURSIVE Config(_)
Config(s) ==
    IF s = BaseState THEN Result(Ptr(base.config), ErrNil)
    ELSE IF GetState(diffs[s].parentID) = MissingState
    THEN Result(Nil, ErrMissingParentState)
    ELSE Config(GetState(diffs[s].parentID))

RECURSIVE CaminoConfig(_)
\* Variant: the configuration is read from the base state directly.
CaminoConfig_FromBase(s) == Result(Ptr(base.caminoConfig), ErrNil)

CaminoConfig(s) ==
    IF s = BaseState THEN Result(Ptr(base.caminoConfig), ErrNil)
    ELSE IF GetState(diffs[s].parentID) = MissingState
    THEN Result(Nil, ErrMissingParentState)
    ELSE CaminoConfig(GetState(diffs[s].parentID))

\* The base state lists its offers in one order; which one is not specified.
BaseGetAllDepositOffers(b) ==
    [ offers |-> {SetToSeq({b.depositOffers[id] : id \in DOMAIN b.depositOffers})},
      err |-> ErrNil ]

\* The parent's offers the diff has no entry for, in the parent's order.
RECURSIVE Unmodified(_, _)
Unmodified(modifiedDepositOffers, parentOffers) ==
    IF parentOffers = <<>> THEN <<>>
    ELSE IF Head(parentOffers).ID \in DOMAIN modifiedDepositOffers
    THEN Unmodified(modifiedDepositOffers, Tail(parentOffers))
    ELSE <<Head(parentOffers)>> \o Unmodified(modifiedDepositOffers, Tail(parentOffers))

\* Variant: the parent's offers are appended whether or not the diff has an
\* entry for their id.
RECURSIVE GetAllDepositOffers_AllOfParent(_)
GetAllDepositOffers_AllOfParent(s) ==
    IF s = BaseState THEN BaseGetAllDepositOffers(base)
    ELSE IF GetState(diffs[s].parentID) = MissingState
    THEN [offers |-> {}, err |-> ErrMissingParentState]
    ELSE
      LET parent == GetAllDepositOffers_AllOfParent(GetState(diffs[s].parentID))
          modifiedDepositOffers == diffs[s].caminoDiff.modifiedDepositOffers
          own == {Deref(modifiedDepositOffers[id]) :
                      id \in {i \in DOMAIN modifiedDepositOffers :
                                  modifiedDepositOffers[i] # Nil}}
      IN  IF parent.err # ErrNil
          THEN [offers |-> {}, err |-> parent.err]
          ELSE [offers |-> UNION {{o \o parentOffers : o \in Orderings(own)} :
                                  parentOffers \in parent.offers},
                err |-> ErrNil]

\* The possible lists: the diff's own offers in any order, then the parent's.
RECURSIVE GetAllDepositOffers(_)
GetAllDepositOffers(s) ==
    IF s = BaseState THEN BaseGetAllDepositOffers(base)
    ELSE IF GetState(diffs[s].parentID) = MissingState
    THEN [offers |-> {}, err |-> ErrMissingParentState]
    ELSE
      LET parent == GetAllDepositOffers(GetState(diffs[s].parentID))
          modifiedDepositOffers == diffs[s].caminoDiff.modifiedDepositOffers
          own == {Deref(modifiedDepositOffers[id]) :
                      id \in {i \in DOMAIN modifiedDepositOffers :
                                  modifiedDepositOffers[i] # Nil}}
      IN  IF parent.err # ErrNil
          THEN [offers |-> {}, err |-> parent.err]
          ELSE [offers |-> UNION {{o \o Unmodified(modifiedDepositOffers, parentOffers) :
                                      o \in Orderings(own)} :
                                  parentOffers \in parent.offers},
                err |-> ErrNil]

\* The base state: the earliest end time over its deposits outside the set.
BaseGetNextToUnlockDepositTime(b, removedDepositIDs) ==
    [ time |-> BaseGetNextToUnlockDepositIDsAndTime(b, removedDepositIDs).time,
      err |-> BaseGetNextToUnlockDepositIDsAndTime(b, removedDepositIDs).err,
      removed |-> removedDepositIDs ]

\* Variant: the added deposits are compared without a look at the set.
RECURSIVE GetNextToUnlockDepositTime_IgnoreSet(_, _)
GetNextToUnlockDepositTime_IgnoreSet(s, removedDepositIDs) ==
    IF s = BaseState THEN BaseGetNextToUnlockDepositTime(base, removedDepositIDs)
    ELSE IF GetState(diffs[s].parentID) = MissingState
    THEN [time |-> ZeroTime, err |-> ErrMissingParentState, removed |-> removedDepositIDs]
    ELSE
      LET modifiedDeposits == diffs[s].caminoDiff.modifiedDeposits
          parent == GetNextToUnlockDepositTime_IgnoreSet(
                        GetState(diffs[s].parentID),
                        removedDepositIDs \cup
                            {id \in DOMAIN modifiedDeposits : modifiedDeposits[id].removed})
          nextUnlockTime ==
              MinTime({parent.time} \cup
                      {EndTime(Deref(modifiedDeposits[id].Deposit)) :
                          id \in {i \in DOMAIN modifiedDeposits : modifiedDeposits[i].added}})
      IN  IF parent.err # ErrNil /\ parent.err # ErrNotFound
          THEN [time |-> ZeroTime, err |-> parent.err, removed |-> parent.removed]
          ELSE IF nextUnlockTime = MaxTime
          THEN [time |-> MaxTime, err |-> ErrNotFound, removed |-> parent.removed]
          ELSE [time |-> nextUnlockTime, err |-> ErrNil, removed |-> parent.removed]

RECURSIVE GetNextToUnlockDepositTime(_, _)
GetNextToUnlockDepositTime(s, removedDepositIDs) ==
    IF s = BaseState THEN BaseGetNextToUnlockDepositTime(base, removedDepositIDs)
    ELSE IF GetState(diffs[s].parentID) = MissingState
    THEN [time |-> ZeroTime, err |-> ErrMissingParentState, removed |-> removedDepositIDs]
    ELSE
      LET modifiedDeposits == diffs[s].caminoDiff.modifiedDeposits
          parent == GetNextToUnlockDepositTime(
                        GetState(diffs[s].parentID),
                        removedDepositIDs \cup
                            {id \in DOMAIN modifiedDeposits : modifiedDeposits[id].removed})
          nextUnlockTime ==
              MinTime({parent.time} \cup
                      {EndTime(Deref(modifiedDeposits[id].Deposit)) :
                          id \in {i \in DOMAIN modifiedDeposits :
                                      /\ modifiedDeposits[i].added
                                      /\ i \notin parent.removed}})
      IN  IF parent.err # ErrNil /\ parent.err # ErrNotFound
          THEN [time |-> ZeroTime, err |-> parent.err, removed |-> parent.removed]
          ELSE IF nextUnlockTime = MaxTime
          THEN [time |-> MaxTime, err |-> ErrNotFound, removed |-> parent.removed]
          ELSE [time |-> nextUnlockTime, err |-> ErrNil, removed |-> parent.removed]

\* The deferred stakers an iterator yields.  diffStakers.GetStakerIterator
\* drops the parent's stakers the diff deleted and merges in those it put.
BaseGetDeferredStakerIterator(b) ==
    [ stakers |-> {b.deferredValidators[k] : k \in DOMAIN b.deferredValidators},
      err |-> ErrNil ]

GetStakerIterator(validatorDiffs, parentIterator) ==
    {st \in parentIterator :
        ~(/\ <<st.SubnetID, st.NodeID>> \in DOMAIN validatorDiffs
          /\ validatorDiffs[<<st.SubnetID, st.NodeID>>].validatorDeleted)}
    \cup {validatorDiffs[k].validator :
              k \in {j \in DOMAIN validatorDiffs : ~validatorDiffs[j].validatorDeleted}}

RECURSIVE GetDeferredStakerIterator(_)
GetDeferredStakerIterator(s) ==
    IF s = BaseState THEN BaseGetDeferredStakerIterator(base)
    ELSE IF GetState(diffs[s].parentID) = MissingState
    THEN [stakers |-> {}, err |-> ErrMissingParentState]
    ELSE
      LET parentIterator == GetDeferredStakerIterator(GetState(diffs[s].parentID))
      IN  IF parentIterator.err # ErrNil
          THEN [stakers |-> {}, err |-> parentIterator.err]
          ELSE [stakers |-> GetStakerIterator(diffs[s].caminoDiff.validatorDiffs,
                                              parentIterator.stakers),
                err |-> ErrNil]

(***************************************************************************)
(* Setters of a diff d.  Each one overwrites one entry of the diff's own   *)
(* modification set and touches nothing else.                              *)
(***************************************************************************)
SetDiffField(d, field, value) ==
    /\ diffs' = [diffs EXCEPT ![d].caminoDiff[field] = value]
    /\ base' = base

\* Variant: an address already in the map keeps its first value.
SetAddressStates_KeepFirst(d, address, states) ==
    SetDiffField(d, "modifiedAddressStates",
                 diffs[d].caminoDiff.modifiedAddressStates @@ (address :> states))

SetAddressStates(d, address, states) ==
    SetDiffField(d, "modifiedAddressStates",
                 MapSet(diffs[d].caminoDiff.modifiedAddressStates, address, states))

SetDepositOffer(d, offer) ==
    SetDiffField(d, "modifiedDepositOffers",
                 MapSet(diffs[d].caminoDiff.modifiedDepositOffers, Deref(offer).ID, offer))

AddDeposit(d, depositTxID, deposit) ==
    SetDiffField(d, "modifiedDeposits",
                 MapSet(diffs[d].caminoDiff.modifiedDeposits, depositTxID,
                        depositDiff(deposit, TRUE, FALSE)))

ModifyDeposit(d, depositTxID, deposit) ==
    SetDiffField(d, "modifiedDeposits",
                 MapSet(diffs[d].caminoDiff.modifiedDeposits, depositTxID,
                        depositDiff(deposit, FALSE, FALSE)))

RemoveDeposit(d, depositTxID, deposit) ==
    SetDiffField(d, "modifiedDeposits",
                 MapSet(diffs[d].caminoDiff.modifiedDeposits, depositTxID,
                        depositDiff(deposit, FALSE, TRUE)))

\* Variant: the map is replaced by one holding only the new alias.
SetMultisigAlias_ResetMap(d, owner) ==
    SetDiffField(d, "modifiedMultisigOwners", (Deref(owner).ID :> owner))

SetMultisigAlias(d, owner) ==
    SetDiffField(d, "modifiedMultisigOwners",
                 MapSet(diffs[d].caminoDiff.modifiedMultisigOwners, Deref(owner).ID, owner))

SetShortIDLink(d, id, key, link) ==
    SetDiffField(d, "modifiedShortLinks",
                 MapSet(diffs[d].caminoDiff.modifiedShortLinks, toShortLinkKey(id, key), link))

\* Variant: the claimable is also written to the base state at once.
SetClaimable_WriteThrough(d, ownerID, claimable) ==
    /\ diffs' = [diffs EXCEPT ![d].caminoDiff.modifiedClaimables = MapSet(@, ownerID, claimable)]
    /\ base' = BaseSetClaimable(base, ownerID, claimable)

SetClaimable(d, ownerID, claimable) ==
    SetDiffField(d, "modifiedClaimables",
                 MapSet(diffs[d].caminoDiff.modifiedClaimables, ownerID, claimable))

SetNotDistributedValidatorReward(d, reward) ==
    SetDiffField(d, "modifiedNotDistributedValidatorReward", Ptr(reward))

PutDeferredValidator(d, staker) ==
    SetDiffField(d, "validatorDiffs", PutValidator(diffs[d].caminoDiff.validatorDiffs, staker))

DeleteDeferredValidator(d, staker) ==
    SetDiffField(d, "validatorDiffs", DeleteValidator(diffs[d].caminoDiff.validatorDiffs, staker))

(***************************************************************************)
(* ApplyCaminoState: the writes of one diff onto a base state, category    *)
(* after category; inside a category the keys of the Go map are ranged in  *)
(* an unspecified order.                                                   *)
(***************************************************************************)
\* Variant: claimables are written before deposits.
ApplyOrder_ClaimablesFirst ==
    << "modifiedNotDistributedValidatorReward",
       "modifiedAddressStates",
       "modifiedDepositOffers",
       "modifiedClaimables",
       "modifiedMultisigOwners",
       "modifiedShortLinks",
       "modifiedDeposits",
       "validatorDiffs" >>

ApplyOrder ==
    << "modifiedNotDistributedValidatorReward",
       "modifiedAddressStates",
       "modifiedDepositOffers",
       "modifiedDeposits",
       "modifiedMultisigOwners",
       "modifiedShortLinks",
       "modifiedClaimables",
       "validatorDiffs" >>

RewardKey == "reward"

\* Variant: the loop over the modified claimables is missing.
ApplyKeys_SkipClaimables(cd, cat) ==
    IF cat = "modifiedNotDistributedValidatorReward"
    THEN IF cd.modifiedNotDistributedValidatorReward # Nil THEN {RewardKey} ELSE {}
    ELSE IF cat = "validatorDiffs"
    THEN {k \in DOMAIN cd.validatorDiffs : cd.validatorDiffs[k].validatorModified}
    ELSE IF cat = "modifiedClaimables"
    THEN {}
    ELSE DOMAIN cd[cat]

\* The keys one category's statement or loop of ApplyCaminoState visits.
ApplyKeys(cd, cat) ==
    IF cat = "modifiedNotDistributedValidatorReward"
    THEN IF cd.modifiedNotDistributedValidatorReward # Nil THEN {RewardKey} ELSE {}
    ELSE IF cat = "validatorDiffs"
    THEN {k \in DOMAIN cd.validatorDiffs : cd.validatorDiffs[k].validatorModified}
    ELSE DOMAIN cd[cat]

\* Variant: the diff's reward is added to the one the base holds.
ApplyRewardWrite_Accumulate(cd, b) ==
    BaseSetNotDistributedValidatorReward(
        b, b.notDistributedValidatorReward + Deref(cd.modifiedNotDistributedValidatorReward))

ApplyRewardWrite(cd, b) ==
    BaseSetNotDistributedValidatorReward(b, Deref(cd.modifiedNotDistributedValidatorReward))

\* The switch over one modified deposit: the base method it selects ...
ApplyDepositCase(modified) ==
    IF modified.added THEN "AddDeposit"
    ELSE IF modified.removed THEN "RemoveDeposit"
    ELSE "ModifyDeposit"

\* ... and the call of it.
ApplyDepositWrite(cd, depositTxID, b) ==
    CASE ApplyDepositCase(cd.modifiedDeposits[depositTxID]) = "AddDeposit" ->
             BaseAddDeposit(b, depositTxID, cd.modifiedDeposits[depositTxID].Deposit)
      [] ApplyDepositCase(cd.modifiedDeposits[depositTxID]) = "RemoveDeposit" ->
             BaseRemoveDeposit(b, depositTxID, cd.modifiedDeposits[depositTxID].Deposit)
      [] OTHER ->
             BaseModifyDeposit(b, depositTxID, cd.modifiedDeposits[depositTxID].Deposit)

\* The base setter call issued for key k of category cat.
ApplyWrite(cd, cat, k, b) ==
    CASE cat = "modifiedNotDistributedValidatorReward" ->
           ApplyRewardWrite(cd, b)
      [] cat = "modifiedAddressStates" ->
           BaseSetAddressStates(b, k, cd.modifiedAddressStates[k])
      [] cat = "modifiedDepositOffers" ->
           BaseSetDepositOffer(b, cd.modifiedDepositOffers[k])
      [] cat = "modifiedDeposits" ->
           ApplyDepositWrite(cd, k, b)
      [] cat = "modifiedMultisigOwners" ->
           BaseSetMultisigAlias(b, cd.modifiedMultisigOwners[k])
      [] cat = "modifiedShortLinks" ->
           BaseSetShortIDLink(b, fromShortLinkKey(k).id, fromShortLinkKey(k).key,
                              cd.modifiedShortLinks[k])
      [] cat = "modifiedClaimables" ->
           BaseSetClaimable(b, k, cd.modifiedClaimables[k])
      [] cat = "validatorDiffs" ->
           IF cd.validatorDiffs[k].validatorDeleted
           THEN BaseDeleteDeferredValidator(b, cd.validatorDiffs[k].validator)
           ELSE BasePutDeferredValidator(b, cd.validatorDiffs[k].validator)

RECURSIVE ApplyRange(_, _, _, _)
ApplyRange(cd, cat, keys, b) ==
    IF keys = {} THEN b
    ELSE LET k == CHOOSE x \in keys : TRUE
         IN  ApplyRange(cd, cat, keys \ {k}, ApplyWrite(cd, cat, k, b))

RECURSIVE ApplyFrom(_, _, _)
ApplyFrom(cd, i, b) ==
    IF i > Len(ApplyOrder) THEN b
    ELSE ApplyFrom(cd, i + 1, ApplyRange(cd, ApplyOrder[i], ApplyKeys(cd, ApplyOrder[i]), b))

ApplyCaminoState(cd, baseState) == ApplyFrom(cd, 1, baseState)

(***************************************************************************)
(* The state machine: diffs are created on a registered parent, written by *)
(* setters, applied onto the base state and accepted.                      *)
(***************************************************************************)
DiffIDSeq == <<"b1", "b2">>

newWritten ==
    [ modifiedAddressStates |-> <<>>,
      modifiedDepositOffers |-> <<>>,
      modifiedDeposits |-> <<>>,
      modifiedMultisigOwners |-> <<>>,
      modifiedShortLinks |-> <<>>,
      modifiedClaimables |-> <<>>,
      modifiedNotDistributedValidatorReward |-> <<>>,
      validatorDiffs |-> <<>> ]

\* No builder is constructed and none of its methods is called.
NoChain == [caminoConfig |-> [VerifyNodeSignature |-> TRUE, LockModeBondDeposit |-> TRUE]]
NoBuild == [method |-> "none"]
NoReply == [handler |-> "none"]
NoInfo == [GenesisBytes |-> <<>>, debugCalls |-> 0]

InitBase ==
    [ addressStates |-> ("a1" :> 1),
      depositOffers |-> ("o1" :> [ID |-> "o1", Flags |-> 0]),
      deposits |-> (1 :> [Start |-> 1, Duration |-> 2, UnlockedAmount |-> 0]),
      multisigAliases |-> ("a1" :> [ID |-> "a1", Memo |-> "m1"]),
      shortLinks |-> (toShortLinkKey("a1", 0) :> "a2"),
      claimables |-> ("w1" :> [ValidatorReward |-> 10]),
      notDistributedValidatorReward |-> 0,
      deferredValidators |->
          (<<"primary", "n1">> :> [SubnetID |-> "primary", NodeID |-> "n1", Weight |-> 1]),
      utxos |->
          ("u1" :> [id |-> "u1",
                     out |-> LockedOut([DepositTxID |-> "t1", BondTxID |-> IDEmpty], "a1")]) @@
          ("u2" :> [id |-> "u2",
                     out |-> LockedOut([DepositTxID |-> IDEmpty, BondTxID |-> "t2"], "a2")]),
      timestamp |-> 1,
      config |-> "config",
      caminoConfig |-> [VerifyNodeSignature |-> TRUE, LockModeBondDeposit |-> TRUE] ]

\* No ApplyCaminoState call is in progress.
NoApplyCall == [d |-> NoDiff, pc |-> 0, pending |-> {}, log |-> <<>>]

\* The VM lock: the engine holds it from the start of a block's apply to its
\* end and every other operation takes it for its own duration.
LockFree == applyCall = NoApplyCall

Init ==
    /\ base = InitBase
    /\ diffs = <<>>
    /\ processing = {}
    /\ lastAccepted = GenesisID
    /\ applied = NoDiff
    /\ applyCount = 0
    /\ written = <<>>
    /\ nops = 0
    /\ published = {}
    /\ applyCall = NoApplyCall
    /\ observed = InitBase
    /\ committed = {InitBase}
    /\ chain = NoChain
    /\ built = NoBuild
    /\ reply = NoReply
    /\ mempool = {}
    /\ info = NoInfo

\* NewCaminoDiff(parentID, stateVersions) succeeding, the new diff registered
\* under the next block id.
NewCaminoDiff ==
    \E parentID \in StateIDs :
        /\ LockFree
        /\ Cardinality(DOMAIN diffs) < Len(DiffIDSeq)
        /\ NewCaminoDiffReturn(parentID).err = ErrNil
        /\ LET id == DiffIDSeq[Cardinality(DOMAIN diffs) + 1]
           IN  /\ diffs' = (id :> Deref(NewCaminoDiffReturn(parentID).val)) @@ diffs
               /\ processing' = processing \cup {id}
               /\ written' = (id :> newWritten) @@ written
        /\ applied' = NoDiff
        /\ applyCount' = 0
        /\ UNCHANGED <<base, lastAccepted, nops, published, applyVars, builderVars, serviceVars, info>>

\* The diff of the block under execution: the newest one, until it is applied.
\* Older diffs are frozen.
Executing ==
    {d \in processing \ published : d = DiffIDSeq[Cardinality(DOMAIN diffs)]}

\* Bookkeeping of one setter call on diff d: key k of category field gets arg
\* (a pointer; nil for a deletion).
SetterCall(d, field, k, arg) ==
    /\ LockFree
    /\ nops < MaxOps
    /\ nops' = nops + 1
    /\ written' = [written EXCEPT ![d][field] =
                      MapSet(@, k, [arg |-> arg,
                                    n |-> IF k \in DOMAIN @ THEN @[k].n + 1 ELSE 1])]
    /\ applied' = NoDiff
    /\ applyCount' = 0
    /\ UNCHANGED <<processing, lastAccepted, published, applyVars, builderVars, serviceVars, info>>

CallSetAddressStates ==
    \E d \in Executing, address \in ShortIDs, states \in AddressStateValues :
        /\ SetterCall(d, "modifiedAddressStates", address, Ptr(states))
        /\ SetAddressStates(d, address, states)

CallSetDepositOffer ==
    \E d \in Executing, offer \in Offers :
        /\ SetterCall(d, "modifiedDepositOffers", offer.ID, Ptr(offer))
        /\ SetDepositOffer(d, Ptr(offer))

\* A deposit id is known to a state when the base holds it or a diff of the
\* chain has an entry for it.
RECURSIVE DepositKnown(_, _)
DepositKnown(s, depositTxID) ==
    IF s = MissingState THEN FALSE
    ELSE IF s = BaseState THEN depositTxID \in DOMAIN base.deposits
    ELSE \/ depositTxID \in DOMAIN diffs[s].caminoDiff.modifiedDeposits
         \/ DepositKnown(GetState(diffs[s].parentID), depositTxID)

\* A deposit transaction adds a deposit under its own, new, transaction id
\* with nothing unlocked yet.
CallAddDeposit ==
    \E d \in Executing, depositTxID \in DepositTxIDs, deposit \in Deposits :
        /\ ~DepositKnown(d, depositTxID)
        /\ deposit.UnlockedAmount = 0
        /\ SetterCall(d, "modifiedDeposits", depositTxID, Ptr(deposit))
        /\ AddDeposit(d, depositTxID, Ptr(deposit))

\* An unlock or claim reads a deposit through the diff and writes it back
\* with its amounts changed; start and duration never change.
CallModifyDeposit ==
    \E d \in Executing, depositTxID \in DepositTxIDs, deposit \in Deposits :
        /\ GetDeposit(d, depositTxID).err = ErrNil
        /\ deposit.Start = Deref(GetDeposit(d, depositTxID).val).Start
        /\ deposit.Duration = Deref(GetDeposit(d, depositTxID).val).Duration
        /\ deposit.UnlockedAmount = 1
        /\ SetterCall(d, "modifiedDeposits", depositTxID, Ptr(deposit))
        /\ ModifyDeposit(d, depositTxID, Ptr(deposit))

\* The caller removes the deposit it read through the diff.
CallRemoveDeposit ==
    \E d \in Executing, depositTxID \in DepositTxIDs :
        /\ GetDeposit(d, depositTxID).err = ErrNil
        /\ SetterCall(d, "modifiedDeposits", depositTxID, Nil)
        /\ RemoveDeposit(d, depositTxID, GetDeposit(d, depositTxID).val)

CallSetMultisigAlias ==
    \E d \in Executing, owner \in Aliases :
        /\ SetterCall(d, "modifiedMultisigOwners", owner.ID, Ptr(owner))
        /\ SetMultisigAlias(d, Ptr(owner))

CallSetShortIDLink ==
    \E d \in Executing, id \in ShortIDs, key \in ShortLinkKeys,
       link \in {Nil, Ptr("a1")} :
        /\ SetterCall(d, "modifiedShortLinks", toShortLinkKey(id, key), link)
        /\ SetShortIDLink(d, id, key, link)

CallSetClaimable ==
    \E d \in Executing, ownerID \in OwnerIDs,
       claimable \in {Nil} \cup {Ptr(c) : c \in Claimables} :
        /\ SetterCall(d, "modifiedClaimables", ownerID, claimable)
        /\ SetClaimable(d, ownerID, claimable)

CallSetNotDistributedValidatorReward ==
    \E d \in Executing, reward \in RewardValues :
        /\ SetterCall(d, "modifiedNotDistributedValidatorReward", RewardKey, Ptr(reward))
        /\ SetNotDistributedValidatorReward(d, reward)

CallPutDeferredValidator ==
    \E d \in Executing, staker \in Stakers :
        /\ SetterCall(d, "validatorDiffs", <<staker.SubnetID, staker.NodeID>>, Ptr(staker))
        /\ PutDeferredValidator(d, staker)

\* The caller deletes the staker it read through the diff.
CallDeleteDeferredValidator ==
    \E d \in Executing, staker \in Stakers :
        /\ GetDeferredValidator(d, staker.SubnetID, staker.NodeID) = Result(Ptr(staker), ErrNil)
        /\ SetterCall(d, "validatorDiffs", <<staker.SubnetID, staker.NodeID>>, Nil)
        /\ DeleteDeferredValidator(d, staker)

\* d.ApplyCaminoState(base), called for a diff built on the last accepted state.
Apply ==
    \E d \in processing :
        /\ LockFree
        /\ diffs[d].parentID = lastAccepted
        /\ applied = d => applyCount < MaxApplies
        /\ base' = ApplyCaminoState(diffs[d].caminoDiff, base)
        /\ applied' = d
        /\ applyCount' = IF applied = d THEN applyCount + 1 ELSE 1
        /\ published' = published \cup {d}
        /\ UNCHANGED <<diffs, processing, lastAccepted, written, nops, applyVars, builderVars, serviceVars, info>>

\* The applied diff's block becomes the last accepted one; its id resolves to
\* the base state from now on.
Accept ==
    /\ LockFree
    /\ applied \in processing
    /\ lastAccepted' = applied
    /\ processing' = processing \ {applied}
    /\ applied' = NoDiff
    /\ applyCount' = 0
    /\ UNCHANGED <<base, diffs, written, nops, published, applyVars, builderVars, serviceVars, info>>

Next ==
    \/ NewCaminoDiff
    \/ CallSetAddressStates
    \/ CallSetDepositOffer
    \/ CallAddDeposit
    \/ CallModifyDeposit
    \/ CallRemoveDeposit
    \/ CallSetMultisigAlias
    \/ CallSetShortIDLink
    \/ CallSetClaimable
    \/ CallSetNotDistributedValidatorReward
    \/ CallPutDeferredValidator
    \/ CallDeleteDeferredValidator
    \/ Apply
    \/ Accept

Spec == Init /\ [][Next]_vars

(***************************************************************************)
(* ApplyCaminoState write by write, next to a service handler that reads   *)
(* the base state.                                                         *)
(***************************************************************************)
\* The first statement at or after position i that has something to write.
RECURSIVE SkipEmpty(_, _)
SkipEmpty(cd, i) ==
    IF i > Len(ApplyOrder) THEN i
    ELSE IF ApplyKeys(cd, ApplyOrder[i]) # {} THEN i
    ELSE SkipEmpty(cd, i + 1)

ApplyAt(d, i, log) ==
    [ d |-> d,
      pc |-> SkipEmpty(diffs[d].caminoDiff, i),
      pending |-> IF SkipEmpty(diffs[d].caminoDiff, i) > Len(ApplyOrder) THEN {}
                  ELSE ApplyKeys(diffs[d].caminoDiff,
                                 ApplyOrder[SkipEmpty(diffs[d].caminoDiff, i)]),
      log |-> log ]

ApplyCaminoStateEnter ==
    \E d \in processing :
        /\ LockFree
        /\ diffs[d].parentID = lastAccepted
        /\ applied = d => applyCount < MaxApplies
        /\ applyCall' = ApplyAt(d, 1, <<>>)
        /\ UNCHANGED <<base, diffs, processing, lastAccepted, applied, applyCount,
                       written, nops, published, observed, committed, builderVars, serviceVars, info>>

\* One write onto base: an entry of the map the current loop ranges over, in
\* any order.
ApplyCaminoStateWrite ==
    /\ applyCall.d # NoDiff
    /\ applyCall.pc <= Len(ApplyOrder)
    /\ \E k \in applyCall.pending :
          /\ base' = ApplyWrite(diffs[applyCall.d].caminoDiff, ApplyOrder[applyCall.pc], k, base)
          /\ applyCall' =
                IF applyCall.pending = {k}
                THEN ApplyAt(applyCall.d, applyCall.pc + 1,
                             Append(applyCall.log, ApplyOrder[applyCall.pc]))
                ELSE [applyCall EXCEPT !.pending = @ \ {k},
                                       !.log = Append(@, ApplyOrder[applyCall.pc])]
    /\ committed' = IF applyCall'.pc > Len(ApplyOrder)
                    THEN committed \cup {base'}
                    ELSE committed
    /\ UNCHANGED <<diffs, processing, lastAccepted, applied, applyCount,
                   written, nops, published, observed, builderVars, serviceVars, info>>

ApplyCaminoStateReturn ==
    /\ applyCall.d # NoDiff
    /\ applyCall.pc > Len(ApplyOrder)
    /\ applyCall' = NoApplyCall
    /\ applied' = applyCall.d
    /\ applyCount' = IF applied = applyCall.d THEN applyCount + 1 ELSE 1
    /\ published' = published \cup {applyCall.d}
    /\ UNCHANGED <<base, diffs, processing, lastAccepted, written, nops, observed,
                   committed, builderVars, serviceVars, info>>

\* Variant: the handler reads whether or not the lock is held.
ServiceRead_Unlocked ==
    /\ observed' = base
    /\ UNCHANGED <<base, diffs, processing, lastAccepted, applied, applyCount,
                   written, nops, published, applyCall, committed, builderVars, serviceVars, info>>

\* A service handler reading s.vm.state, under the VM lock.
ServiceRead ==
    /\ LockFree
    /\ observed' = base
    /\ UNCHANGED <<base, diffs, processing, lastAccepted, applied, applyCount,
                   written, nops, published, applyCall, committed, builderVars, serviceVars, info>>

NextApply ==
    \/ NewCaminoDiff
    \/ CallSetAddressStates
    \/ CallSetDepositOffer
    \/ CallAddDeposit
    \/ CallModifyDeposit
    \/ CallRemoveDeposit
    \/ CallSetMultisigAlias
    \/ CallSetShortIDLink
    \/ CallSetClaimable
    \/ CallSetNotDistributedValidatorReward
    \/ CallPutDeferredValidator
    \/ CallDeleteDeferredValidator
    \/ ApplyCaminoStateEnter
    \/ ApplyCaminoStateWrite
    \/ ApplyCaminoStateReturn
    \/ Accept
    \/ ServiceRead

SpecApply == Init /\ [][NextApply]_vars

(***************************************************************************)
(* Uniform access to the keyed getters, used to state the properties.      *)
(***************************************************************************)
Fields == {ApplyOrder[i] : i \in 1 .. Len(ApplyOrder)}

KeysOf(field) ==
    CASE field = "modifiedAddressStates" -> ShortIDs
      [] field = "modifiedDepositOffers" -> OfferIDs
      [] field = "modifiedDeposits" -> DepositTxIDs
      [] field = "modifiedMultisigOwners" -> ShortIDs
      [] field = "modifiedShortLinks" ->
           {toShortLinkKey(id, key) : id \in ShortIDs, key \in ShortLinkKeys}
      [] field = "modifiedClaimables" -> OwnerIDs
      [] field = "modifiedNotDistributedValidatorReward" -> {RewardKey}
      [] field = "validatorDiffs" -> SubnetIDs \X NodeIDs

\* The result (value and error) of the getter of category field for key k on
\* state s.
Get(s, field, k) ==
    CASE field = "modifiedAddressStates" -> GetAddressStates(s, k)
      [] field = "modifiedDepositOffers" -> GetDepositOffer(s, k)
      [] field = "modifiedDeposits" -> GetDeposit(s, k)
      [] field = "modifiedMultisigOwners" -> GetMultisigAlias(s, k)
      [] field = "modifiedShortLinks" ->
           GetShortIDLink(s, fromShortLinkKey(k).id, fromShortLinkKey(k).key)
      [] field = "modifiedClaimables" -> GetClaimable(s, k)
      [] field = "modifiedNotDistributedValidatorReward" -> GetNotDistributedValidatorReward(s)
      [] field = "validatorDiffs" -> GetDeferredValidator(s, k[1], k[2])

\* What the getter of category field returns for a value passed to the setter
\* as the pointer arg, and for a missing key.
Returned(field, arg) ==
    IF field \in {"modifiedAddressStates", "modifiedShortLinks",
                  "modifiedNotDistributedValidatorReward"}
    THEN Result(Deref(arg), ErrNil)
    ELSE Result(arg, ErrNil)

NotFoundOf(field) ==
    IF field = "modifiedShortLinks" THEN Result(ShortEmpty, ErrNotFound)
    ELSE Result(Nil, ErrNotFound)

\* Setter calls recorded for diff d.
WrittenKeys(d, field) == DOMAIN written[d][field]
ParentOf(d) == GetState(diffs[d].parentID)

\* The step is a setter call on key k of category field of diff d.
SetterStepOn(d, field, k) ==
    /\ d \in DOMAIN written
    /\ k \in DOMAIN written'[d][field]
    /\ k \in DOMAIN written[d][field] => written'[d][field][k].n # written[d][field][k].n

(***************************************************************************)
(* C1  Diff read-through: a live diff whose parent is registered returns,  *)
(* for every key no setter of the diff was called on, exactly the value    *)
(* and error of its parent's getter; through stacked diffs this reaches    *)
(* the base state.                                                         *)
(***************************************************************************)
C1_ReadThrough ==
    \A d \in processing :
        ParentOf(d) # MissingState =>
            \A field \in Fields : \A k \in KeysOf(field) \ WrittenKeys(d, field) :
                Get(d, field, k) = Get(ParentOf(d), field, k)

\* A diff stacked on a diff stacked on the base: one key read through from
\* the middle diff (which differs from the base there), one from the base.
C1_Witness ==
    \E d \in processing :
        /\ ParentOf(d) \in processing
        /\ ParentOf(ParentOf(d)) = BaseState
        /\ \E field \in Fields : \E k \in KeysOf(field) \ WrittenKeys(d, field) :
              /\ k \in WrittenKeys(ParentOf(d), field)
              /\ Get(d, field, k) # Get(BaseState, field, k)
        /\ \E field \in Fields : \E k \in KeysOf(field) \ WrittenKeys(d, field) :
              /\ k \notin WrittenKeys(ParentOf(d), field)
              /\ Get(d, field, k).err = ErrNil

(***************************************************************************)
(* C2  Read-your-writes, last write wins: the getter of a diff returns,    *)
(* for every key whose most recent setter call passed a value, that value  *)
(* with no error, whatever the parent holds.                               *)
(***************************************************************************)
C2_LastWriteWins ==
    \A d \in DOMAIN diffs : \A field \in Fields : \A k \in WrittenKeys(d, field) :
        written[d][field][k].arg # Nil =>
            Get(d, field, k) = Returned(field, written[d][field][k].arg)

\* A key written twice on one diff whose parent returns something else.
C2_Witness ==
    \E d \in processing : \E field \in Fields : \E k \in WrittenKeys(d, field) :
        /\ written[d][field][k].n >= 2
        /\ written[d][field][k].arg # Nil
        /\ ParentOf(d) # MissingState
        /\ Get(ParentOf(d), field, k).err = ErrNil
        /\ Get(ParentOf(d), field, k) # Get(d, field, k)

(***************************************************************************)
(* C3  Tombstones hide parent values: when the most recent setter call on  *)
(* a key was a deletion, the diff's getter returns NotFound, also when the *)
(* parent holds a value and also when the parent is not registered.        *)
(***************************************************************************)
C3_TombstoneHides ==
    \A d \in DOMAIN diffs : \A field \in Fields : \A k \in WrittenKeys(d, field) :
        written[d][field][k].arg = Nil => Get(d, field, k) = NotFoundOf(field)

\* A deleted key for which the parent returns a value.
C3_Witness ==
    \E d \in processing : \E field \in Fields : \E k \in WrittenKeys(d, field) :
        /\ written[d][field][k].arg = Nil
        /\ ParentOf(d) # MissingState
        /\ Get(ParentOf(d), field, k).err = ErrNil

(***************************************************************************)
(* C4  Apply publishes the diff view: when ApplyCaminoState of a diff      *)
(* whose parent is the base state runs, every getter of the base returns   *)
(* afterwards what the diff's getter returned just before; keys the diff   *)
(* did not modify keep the value the base had.                             *)
(***************************************************************************)
ApplyStepOf(d) ==
    /\ applied' = d
    /\ applyCount' # applyCount \/ applied # d

C4_ApplyPublishes ==
    [][\A d \in processing :
          ApplyStepOf(d) /\ ParentOf(d) = BaseState =>
              \A field \in Fields : \A k \in KeysOf(field) :
                  /\ Get(BaseState, field, k)' = Get(d, field, k)
                  /\ k \notin WrittenKeys(d, field) =>
                        Get(BaseState, field, k)' = Get(BaseState, field, k)]_vars

\* An applied diff that carried a value and a deletion, both now in the base.
C4_Witness ==
    /\ applied \in processing
    /\ base # InitBase
    /\ \E field \in Fields : \E k \in WrittenKeys(applied, field) :
          /\ written[applied][field][k].arg # Nil
          /\ Get(BaseState, field, k) = Returned(field, written[applied][field][k].arg)
    /\ \E field \in Fields : \E k \in WrittenKeys(applied, field) :
          /\ written[applied][field][k].arg = Nil
          /\ Get(BaseState, field, k) = NotFoundOf(field)

(***************************************************************************)
(* C5  Apply idempotence: a second ApplyCaminoState of the same diff right *)
(* after the first leaves every getter of the base as the first left it.   *)
(***************************************************************************)
C5_ApplyIdempotent ==
    [][\A d \in processing :
          ApplyStepOf(d) /\ applied = d =>
              \A field \in Fields : \A k \in KeysOf(field) :
                  Get(BaseState, field, k)' = Get(BaseState, field, k)]_vars

\* A diff with a value and a deletion applied twice in a row.
C5_Witness ==
    /\ applied \in processing
    /\ applyCount >= 2
    /\ \E field \in Fields : \E k \in WrittenKeys(applied, field) :
          written[applied][field][k].arg # Nil
    /\ \E field \in Fields : \E k \in WrittenKeys(applied, field) :
          written[applied][field][k].arg = Nil

(***************************************************************************)
(* C8  Only apply mutates base: a step that is not ApplyCaminoState leaves *)
(* every getter of the base state unchanged, and a setter call on a diff   *)
(* leaves every other diff (its parent among them) as it was.              *)
(***************************************************************************)
C8_OnlyApplyMutatesBase ==
    [][/\ (\A d \in processing : ~ApplyStepOf(d)) =>
              \A field \in Fields : \A k \in KeysOf(field) :
                  Get(BaseState, field, k)' = Get(BaseState, field, k)
       /\ \A d \in DOMAIN diffs : \A field \in Fields : \A k \in KeysOf(field) :
              SetterStepOn(d, field, k) =>
                  /\ base' = base
                  /\ \A other \in (DOMAIN diffs) \ {d} : diffs'[other] = diffs[other]]_vars

\* Setters have run on a diff built on the base, whose view now differs from
\* the untouched base.
C8_Witness ==
    \E d \in processing :
        /\ ParentOf(d) = BaseState
        /\ base = InitBase
        /\ \E field \in Fields : \E k \in WrittenKeys(d, field) :
              Get(d, field, k) # Get(BaseState, field, k)

RECURSIVE ChainResolves(_)
ChainResolves(s) ==
    IF s = MissingState THEN FALSE
    ELSE IF s = BaseState THEN TRUE
    ELSE ChainResolves(GetState(diffs[s].parentID))

EffectiveDeposits(d, excluded) ==
    {id \in DepositTxIDs \ excluded : GetDeposit(d, id).err = ErrNil}

EndTimeIn(d, id) == EndTime(Deref(GetDeposit(d, id).val))

NextToUnlockOf(d, excluded) ==
    LET effective == EffectiveDeposits(d, excluded)
        minEndTime == MinTime({EndTimeIn(d, id) : id \in effective})
    IN  [ ids |-> Sort(SetToSeq({id \in effective : EndTimeIn(d, id) = minEndTime})),
          time |-> minEndTime,
          err |-> ErrNil ]

\* No diff is between its ApplyCaminoState and the acceptance of its block,
\* where base already holds what the diff still lists as modified.
NoAcceptInProgress == published \cap processing = {}

C10_NextToUnlockOverEffectiveSet ==
    \A d \in processing, excluded \in SUBSET DepositTxIDs :
        (NoAcceptInProgress /\ ChainResolves(d) /\ EffectiveDeposits(d, excluded) # {}) =>
            LET r == GetNextToUnlockDepositIDsAndTime(d, excluded)
            IN  [ids |-> r.ids, time |-> r.time, err |-> r.err] = NextToUnlockOf(d, excluded)


CategoryRank(field) ==
    CASE field = "modifiedNotDistributedValidatorReward" -> 1
      [] field = "modifiedAddressStates" -> 2
      [] field = "modifiedDepositOffers" -> 3
      [] field = "modifiedDeposits" -> 4
      [] field = "modifiedMultisigOwners" -> 5
      [] field = "modifiedShortLinks" -> 6
      [] field = "modifiedClaimables" -> 7
      [] field = "validatorDiffs" -> 8

C7_ApplyCategoryOrder ==
    \A i, j \in 1 .. Len(applyCall.log) :
        i < j => CategoryRank(applyCall.log[i]) <= CategoryRank(applyCall.log[j])

\* An apply call has written entries of two categories.
C7_Witness ==
    /\ Len(applyCall.log) = 2
    /\ applyCall.log[1] = "modifiedDeposits"
    /\ applyCall.log[2] = "modifiedClaimables"

(***************************************************************************)
(* C11: GetNextToUnlockDepositIDsAndTime(excluded) on a diff returns       *)
(* NotFound, with MaxTime and no ids, exactly when every deposit of the    *)
(* effective set is excluded; otherwise it returns a non-empty id list and *)
(* no error.                                                               *)
(***************************************************************************)
C11_NextUnlockTotality ==
    \A d \in processing, excluded \in SUBSET DepositTxIDs :
        (NoAcceptInProgress /\ ChainResolves(d)) =>
            LET r == GetNextToUnlockDepositIDsAndTime(d, excluded)
            IN  IF EffectiveDeposits(d, excluded) = {}
                THEN r.err = ErrNotFound /\ r.time = MaxTime /\ r.ids = <<>>
                ELSE r.err = ErrNil /\ r.ids # <<>>

(***************************************************************************)
(* UTXO modifications of diffs and the locked-UTXO query.                  *)
(***************************************************************************)
CallAddUTXO ==
    \E d \in Executing, utxo \in UTXOs :
        /\ LockFree
        /\ nops < MaxOps
        /\ nops' = nops + 1
        /\ AddUTXO(d, utxo)
        /\ UNCHANGED <<processing, lastAccepted, applied, applyCount, written,
                       published, applyVars, builderVars, serviceVars, info>>

CallDeleteUTXO ==
    \E d \in Executing, utxoID \in UTXOIDs :
        /\ LockFree
        /\ nops < MaxOps
        /\ nops' = nops + 1
        /\ DeleteUTXO(d, utxoID)
        /\ UNCHANGED <<processing, lastAccepted, applied, applyCount, written,
                       published, applyVars, builderVars, serviceVars, info>>

NextUTXO ==
    \/ NewCaminoDiff
    \/ CallAddUTXO
    \/ CallDeleteUTXO

SpecUTXO == Init /\ [][NextUTXO]_vars

(***************************************************************************)
(* C12: LockedUTXOs(txIDs, addrs, lockState) on a diff returns the         *)
(* parent's answer without the UTXOs whose id is among the diff's modified *)
(* UTXOs, followed by the UTXOs of the diff that are locked outputs whose  *)
(* lock ids match lockState for one of txIDs.                              *)
(***************************************************************************)
RECURSIVE WithoutModified(_, _)
WithoutModified(modifiedUTXOs, retUtxos) ==
    IF retUtxos = <<>> THEN <<>>
    ELSE IF Head(retUtxos).id \in DOMAIN modifiedUTXOs
    THEN WithoutModified(modifiedUTXOs, Tail(retUtxos))
    ELSE <<Head(retUtxos)>> \o WithoutModified(modifiedUTXOs, Tail(retUtxos))

IntroducedMatching(modifiedUTXOs, txIDs, lockState) ==
    {Deref(modifiedUTXOs[id].utxo) : id \in
        {i \in DOMAIN modifiedUTXOs :
            /\ modifiedUTXOs[i].utxo # Nil
            /\ Deref(modifiedUTXOs[i].utxo).out.locked
            /\ Match(Deref(modifiedUTXOs[i].utxo).out.IDs, lockState, txIDs)}}

C12_LockedUTXOsComposition ==
    \A d \in processing, txIDs \in SUBSET LockTxIDs, addresses \in SUBSET ShortIDs,
       lockState \in LockStates :
        ChainResolves(d) =>
            LET parent == LockedUTXOs(GetState(diffs[d].parentID), txIDs, addresses, lockState)
                r == LockedUTXOs(d, txIDs, addresses, lockState)
            IN  /\ r.err = ErrNil
                /\ r.utxos =
                     UNION {{WithoutModified(diffs[d].modifiedUTXOs, retUtxos) \o new :
                                new \in Orderings(IntroducedMatching(diffs[d].modifiedUTXOs,
                                                                     txIDs, lockState))} :
                            retUtxos \in parent.utxos}

(***************************************************************************)
(* Diffs whose parent leaves the registry.                                 *)
(***************************************************************************)
CallSetTimestamp ==
    \E d \in Executing, timestamp \in Timestamps :
        /\ LockFree
        /\ nops < MaxOps
        /\ nops' = nops + 1
        /\ SetTimestamp(d, timestamp)
        /\ UNCHANGED <<processing, lastAccepted, applied, applyCount, written,
                       published, applyVars, builderVars, serviceVars, info>>

NextParent ==
    \/ NewCaminoDiff
    \/ CallSetTimestamp
    \/ CallSetAddressStates
    \/ CallSetDepositOffer
    \/ CallRemoveDeposit
    \/ CallSetClaimable
    \/ CallDeleteDeferredValidator
    \/ CallDeleteUTXO
    \/ Apply
    \/ Accept

SpecParent == Init /\ [][NextParent]_vars

(***************************************************************************)
(* C13: NewCaminoDiff(parentID, versions) fails with MissingParentState    *)
(* and returns no diff exactly when parentID is not registered; on success *)
(* the new diff has an empty modification set and the parent's timestamp.  *)
(* A diff whose parent is no longer registered answers MissingParentState  *)
(* to every query that must consult the parent: a key it has not modified, *)
(* LockedUTXOs, GetAllDepositOffers, Config, CaminoConfig, the             *)
(* next-to-unlock queries (which then leave the caller's set alone) and    *)
(* the deferred-staker iterator.                                           *)
(***************************************************************************)
Registered == processing \cup {lastAccepted}

TimestampOf(id) == IF id \in processing THEN diffs[id].timestamp ELSE base.timestamp

C13_NewDiffNeedsParent ==
    \A parentID \in StateIDs :
        LET r == NewCaminoDiffReturn(parentID)
        IN  /\ (r.err = ErrMissingParentState /\ r.val = Nil) <=> parentID \notin Registered
            /\ parentID \in Registered =>
                  /\ r.err = ErrNil
                  /\ Deref(r.val).parentID = parentID
                  /\ Deref(r.val).timestamp = TimestampOf(parentID)
                  /\ Deref(r.val).modifiedUTXOs = <<>>
                  /\ \A field \in Fields \ {"modifiedNotDistributedValidatorReward"} :
                        Deref(r.val).caminoDiff[field] = <<>>
                  /\ Deref(r.val).caminoDiff.modifiedNotDistributedValidatorReward = Nil

C13_OrphanQueriesFail ==
    \A d \in processing :
        diffs[d].parentID \notin Registered =>
            /\ \A field \in Fields : \A k \in KeysOf(field) \ WrittenKeys(d, field) :
                  Get(d, field, k).err = ErrMissingParentState
            /\ \A txIDs \in SUBSET LockTxIDs, addresses \in SUBSET ShortIDs,
                  lockState \in LockStates :
                  LockedUTXOs(d, txIDs, addresses, lockState).err = ErrMissingParentState
            /\ GetAllDepositOffers(d).err = ErrMissingParentState
            /\ Config(d).err = ErrMissingParentState
            /\ CaminoConfig(d).err = ErrMissingParentState
            /\ GetDeferredStakerIterator(d).err = ErrMissingParentState
            /\ \A excluded \in SUBSET DepositTxIDs :
                  /\ GetNextToUnlockDepositTime(d, excluded).err = ErrMissingParentState
                  /\ GetNextToUnlockDepositTime(d, excluded).removed = excluded
                  /\ GetNextToUnlockDepositIDsAndTime(d, excluded).err = ErrMissingParentState
                  /\ GetNextToUnlockDepositIDsAndTime(d, excluded).removed = excluded

C13_MissingParent == C13_NewDiffNeedsParent /\ C13_OrphanQueriesFail

\* The genesis block was a registered parent and no longer is; a diff built
\* on it is still live and has a modification of its own.
C13_Witness ==
    /\ GenesisID \notin Registered
    /\ \E d \in processing :
          /\ diffs[d].parentID = GenesisID
          /\ diffs[d].caminoDiff.modifiedDeposits # <<>>
          /\ diffs[d].modifiedUTXOs # <<>>

(***************************************************************************)
(* The transaction builder (package builder).  A builder holds the chain   *)
(* state, the config, the clock, shared memory and the spend planner; its  *)
(* methods read them and return (tx, err).  A private key is identified    *)
(* with its address, a key list with the set of its addresses.             *)
(***************************************************************************)
BuilderAddrs == {"A", "B"}
KeyLists == {{}, {"A"}, {"A", "B"}}
BuilderNodeIDs == {"A", "N"}
EmptyNodeID == "emptyNode"

\* b.cfg.TxFee, b.cfg.AddPrimaryNetworkValidatorFee, b.clk.Unix() and
\* b.cfg.SharedMemorySyncBound
TxFee == 10
AddPrimaryNetworkValidatorFee == 0
Now == 200
SharedMemorySyncBound == 50

errKeyMissing == "errKeyMissing"
errTxIsNotCommitted == "errTxIsNotCommitted"
errNotSECPOwner == "errNotSECPOwner"
errWrongTxType == "errWrongTxType"
errWrongLockMode == "errWrongLockMode"
errNoUTXOsForImport == "errNoUTXOsForImport"
errInsufficientSpendable == "InsufficientSpendable"
errIncompatibleLockState == "IncompatibleLockState"
errMarshal == "errMarshal"
errSyntactic == "errSyntacticVerify"
errCantSpend == "errCantSpend"

\* The collaborator that fails during a call, if any: the state's
\* CaminoConfig (a diff whose parent is gone), the codec under NewSigned and
\* Sign, or the final SyntacticVerify.
Faults == {"none", "CaminoConfig", "NewSigned", "SyntacticVerify"}

\* What the treasury keychain's Spend may hand back other than a transferable
\* input: an error, or an input that is not an avax.TransferableIn.
SpendFaults == {"Spend", "NotTransferableIn"}

\* secp256k1fx.OutputOwners
OutputOwners(locktime, threshold, addrs) ==
    [Locktime |-> locktime, Threshold |-> threshold, Addrs |-> addrs]

\* The UTXOs the chain state may hold for the key holders: two unlocked ones,
\* one deposited by deposit tx d1 and one bonded by validator tx v1.
PoolUTXO(id, amount, lockState, lockTxID, addr) ==
    [id |-> id, amount |-> amount, lockState |-> lockState, lockTxID |-> lockTxID,
     addr |-> addr]
UTXOPool ==
    { PoolUTXO(1, 1000, StateUnlocked, IDEmpty, "A"),
      PoolUTXO(2, 20, StateUnlocked, IDEmpty, "B"),
      PoolUTXO(3, 500, StateDeposited, "d1", "A"),
      PoolUTXO(4, 40, StateBonded, "v1", "A") }

\* avax.TransferableInput and avax.TransferableOutput
TransferableInput(utxo) == [id |-> utxo.id, amount |-> utxo.amount]
TransferableOutput(amount, lockState, lockTxID, addr) ==
    [amount |-> amount, lockState |-> lockState, lockTxID |-> lockTxID, addr |-> addr]

\* The transactions state.GetTx knows: d1 and d2 are committed deposits, d3 is
\* a deposit still processing, d4 is no deposit, d5 a deposit whose rewards
\* owner is no secp owner; any other id is unknown.
StoredTxs ==
    [ d1 |-> [status |-> "Committed", type |-> "DepositTx", secp |-> TRUE,
              RewardsOwner |-> OutputOwners(0, 1, <<"A">>)],
      d2 |-> [status |-> "Committed", type |-> "DepositTx", secp |-> TRUE,
              RewardsOwner |-> OutputOwners(0, 2, <<"A", "B">>)],
      d3 |-> [status |-> "Processing", type |-> "DepositTx", secp |-> TRUE,
              RewardsOwner |-> OutputOwners(0, 1, <<"A">>)],
      d4 |-> [status |-> "Committed", type |-> "AddressStateTx", secp |-> TRUE,
              RewardsOwner |-> OutputOwners(0, 1, <<"A">>)],
      d5 |-> [status |-> "Committed", type |-> "DepositTx", secp |-> FALSE,
              RewardsOwner |-> OutputOwners(0, 1, <<"A">>)] ]
BuilderTxIDs == {"d0", "d1", "d2", "d3", "d4", "d5"}

\* The claimables of the state: owned by A, by A and B together, and by A
\* from time 900 on; any other owner id is absent.
StoredClaimables ==
    [ oA |-> [Owner |-> OutputOwners(0, 1, <<"A">>)],
      oAB |-> [Owner |-> OutputOwners(0, 2, <<"A", "B">>)],
      oLate |-> [Owner |-> OutputOwners(900, 1, <<"A">>)] ]
ClaimableOwnerIDs == {"oA", "oAB", "oLate", "oNone"}

\* Shared memory's answer to Indexed: byte strings that decode to a timed
\* UTXO (id, amount, timestamp) or do not decode at all.
TimedUTXO(id, amount, timestamp) ==
    [decodes |-> TRUE, id |-> id, amount |-> amount, Timestamp |-> timestamp]
Garbage == [decodes |-> FALSE]
SharedMemoryContents ==
    { <<>>,
      <<TimedUTXO(5, 7, 100)>>,
      <<TimedUTXO(5, 7, 190)>>,
      <<Garbage, TimedUTXO(5, 7, 100), TimedUTXO(6, 9, 120)>>,
      <<TimedUTXO(6, 9, 120), Garbage, TimedUTXO(5, 7, 100), TimedUTXO(7, 3, 190)>> }

Chains ==
    [ caminoConfig : [VerifyNodeSignature : BOOLEAN, LockModeBondDeposit : BOOLEAN],
      utxos : SUBSET UTXOPool,
      depositExpired : BOOLEAN,
      sharedMemory : SharedMemoryContents ]

RECURSIVE SumAmounts(_)
SumAmounts(q) == IF q = <<>> THEN 0 ELSE Head(q).amount + SumAmounts(Tail(q))

\* The UTXOs of a set as a list in id order
RECURSIVE ByID(_)
ByID(S) ==
    IF S = {} THEN <<>>
    ELSE LET u == CHOOSE x \in S : \A y \in S : x.id <= y.id
         IN  <<u>> \o ByID(S \ {u})

\* The shortest prefix of the candidates that covers the amount
RECURSIVE Cover(_, _)
Cover(candidates, amount) ==
    IF amount <= 0 \/ candidates = <<>> THEN <<>>
    ELSE <<Head(candidates)>> \o Cover(Tail(candidates), amount - Head(candidates).amount)

\* The position of element i once the list is sorted by key, equal keys in
\* their old order.
SortedPosition(keyOf, i) ==
    1 + Cardinality({j \in DOMAIN keyOf :
                        keyOf[j] < keyOf[i] \/ (keyOf[j] = keyOf[i] /\ j < i)})

SortBy(q, keyOf) ==
    [k \in 1 .. Len(q) |-> q[CHOOSE i \in 1 .. Len(q) : SortedPosition(keyOf, i) = k]]

\* avax.SortTransferableInputsWithSigners: by UTXO id, the signers following
\* their inputs.
SortTransferableInputsWithSigners(ins, signers) ==
    LET keyOf == [i \in 1 .. Len(ins) |-> ins[i].id]
    IN  [ins |-> SortBy(ins, keyOf), signers |-> SortBy(signers, keyOf)]

\* avax.SortTransferableOutputs: by the encoded bytes, here the amount and
\* then the lock state.
LockStateRank(lockState) ==
    CASE lockState = StateUnlocked -> 0
      [] lockState = StateDeposited -> 1
      [] lockState = StateBonded -> 2
      [] OTHER -> 3

SortTransferableOutputs(outs) ==
    SortBy(outs, [i \in 1 .. Len(outs) |-> 4 * outs[i].amount + LockStateRank(outs[i].lockState)])

Planned(ins, outs, signers, e) == [ins |-> ins, outs |-> outs, signers |-> signers, err |-> e]

\* utxo.Spender.Lock: inputs taken from the unlocked UTXOs of the key holders
\* until they cover the amount to lock plus the amount to burn; one output in
\* the new lock state, one change output for the excess, one signer list per
\* input; inputs by UTXO id and outputs in canonical order.
Lock(utxos, keys, totalAmountToLock, totalAmountToBurn, appliedLockState, changeAddr) ==
    LET candidates == ByID({u \in utxos : u.addr \in keys /\ u.lockState = StateUnlocked})
        spent == Cover(candidates, totalAmountToLock + totalAmountToBurn)
        excess == SumAmounts(spent) - totalAmountToLock - totalAmountToBurn
        lockedOuts == IF totalAmountToLock > 0
                      THEN <<TransferableOutput(totalAmountToLock, appliedLockState,
                                                "this", changeAddr)>>
                      ELSE <<>>
        changeOuts == IF excess > 0
                      THEN <<TransferableOutput(excess, StateUnlocked, IDEmpty, changeAddr)>>
                      ELSE <<>>
    IN  IF excess < 0 THEN Planned(<<>>, <<>>, <<>>, errInsufficientSpendable)
        ELSE Planned([i \in 1 .. Len(spent) |-> TransferableInput(spent[i])],
                     SortTransferableOutputs(lockedOuts \o changeOuts),
                     [i \in 1 .. Len(spent) |-> <<spent[i].addr>>],
                     ErrNil)

\* utxo.Spender.Unlock: every UTXO in the lock state whose lock id is one of
\* the given ones is consumed and produced again with the lock removed; no
\* signers.
Unlock(utxos, lockTxIDs, removedLockState) ==
    LET spent == ByID({u \in utxos : u.lockState = removedLockState
                                     /\ u.lockTxID \in lockTxIDs})
    IN  Planned([i \in 1 .. Len(spent) |-> TransferableInput(spent[i])],
                SortTransferableOutputs([i \in 1 .. Len(spent) |->
                    TransferableOutput(spent[i].amount, StateUnlocked, IDEmpty,
                                       spent[i].addr)]),
                <<>>, ErrNil)

\* utxo.Spender.UnlockDeposit: the key holders' variant, for expired deposits
\* only; one signer list per input.
UnlockDeposit(c, keys, lockTxIDs) ==
    LET spent == ByID({u \in c.utxos : u.lockState = StateDeposited
                                       /\ u.lockTxID \in lockTxIDs})
    IN  IF lockTxIDs # {} /\ ~c.depositExpired
        THEN Planned(<<>>, <<>>, <<>>, errIncompatibleLockState)
        ELSE IF \E i \in 1 .. Len(spent) : spent[i].addr \notin keys
        THEN Planned(<<>>, <<>>, <<>>, errKeyMissing)
        ELSE Planned([i \in 1 .. Len(spent) |-> TransferableInput(spent[i])],
                     [i \in 1 .. Len(spent) |->
                         TransferableOutput(spent[i].amount, StateUnlocked, IDEmpty,
                                            spent[i].addr)],
                     [i \in 1 .. Len(spent) |-> <<spent[i].addr>>],
                     ErrNil)

\* The embedded builder's Spend: as Lock, the staked amount produced as a
\* stake output.
Spend(utxos, keys, amount, fee, changeAddr) ==
    Lock(utxos, keys, amount, fee, "Staked", changeAddr)

\* secp256k1fx.Keychain.Match: the keys of the chain among the owner's
\* addresses, up to the threshold, and whether they reach it at that time.
KeychainMatch(kc, owner, time) ==
    LET held == SelectSeq(owner.Addrs, LAMBDA a : a \in kc)
        used == SubSeq(held, 1, IF Len(held) < owner.Threshold THEN Len(held)
                                ELSE owner.Threshold)
    IN  [keys |-> used,
         able |-> owner.Locktime <= time /\ Len(used) = owner.Threshold]

\* secp256k1fx.Keychain.Add on a keychain held as the list of its keys
KeychainAdd(keysList, key) ==
    IF \E i \in 1 .. Len(keysList) : keysList[i] = key THEN keysList
    ELSE Append(keysList, key)

RECURSIVE KeychainAddAll(_, _)
KeychainAddAll(keysList, newKeys) ==
    IF newKeys = <<>> THEN keysList
    ELSE KeychainAddAll(KeychainAdd(keysList, Head(newKeys)), Tail(newKeys))

\* getSigners for one address
getSigner(keys, address) ==
    IF address \notin keys THEN Result(<<>>, errKeyMissing)
    ELSE Result(<<address>>, ErrNil)

getDepositRewardsOwner(depositTxID) ==
    IF depositTxID \notin DOMAIN StoredTxs THEN Result(Nil, ErrNotFound)
    ELSE LET stored == StoredTxs[depositTxID]
         IN  IF stored.status # "Committed" THEN Result(Nil, errTxIsNotCommitted)
             ELSE IF stored.type # "DepositTx" THEN Result(Nil, errWrongTxType)
             ELSE IF ~stored.secp THEN Result(Nil, errNotSECPOwner)
             ELSE Result(Ptr(stored.RewardsOwner), ErrNil)

\* state.GetClaimable of the builder's chain state
ChainGetClaimable(ownerID) ==
    IF ownerID \in DOMAIN StoredClaimables
    THEN Result(Ptr(StoredClaimables[ownerID]), ErrNil)
    ELSE Result(Nil, ErrNotFound)

\* state.CaminoConfig of the builder's chain state
ChainCaminoConfig(c, fault) ==
    IF fault = "CaminoConfig" THEN Result(Nil, ErrMissingParentState)
    ELSE Result(Ptr(c.caminoConfig), ErrNil)

\* txs.NewSigned: the unsigned tx with one credential per signer list
NewSigned(utx, signers, fault) ==
    IF fault = "NewSigned" THEN Result(Nil, errMarshal)
    ELSE Result(Ptr([utx EXCEPT !.Creds = signers]), ErrNil)

\* tx.Sign: credentials for the signer lists are attached after the ones the
\* tx carries.
Sign(tx, signers, fault) ==
    IF fault = "NewSigned" THEN Result(Nil, errMarshal)
    ELSE Result(Ptr([tx EXCEPT !.Creds = @ \o signers]), ErrNil)

\* tx.SyntacticVerify
SyntacticVerify(tx, fault) ==
    IF fault = "SyntacticVerify" THEN errSyntactic ELSE ErrNil

UnsignedTx(type, ins, outs) == [type |-> type, Ins |-> ins, Outs |-> outs, Creds |-> <<>>]

\* What a method returns, and the collaborators it called on the way
Returns(tx, e, calls) == [tx |-> tx, err |-> e, calls |-> calls]

\* Signing and verifying at the end of a method:
\*     tx, err := txs.NewSigned(utx, txs.Codec, signers)
\*     if err != nil { return nil, err }
\*     return tx, tx.SyntacticVerify(b.ctx)
SignAndVerify(utx, signers, fault, calls) ==
    LET signed == NewSigned(utx, signers, fault)
    IN  IF signed.err # ErrNil THEN Returns(Nil, signed.err, calls \o <<"NewSigned">>)
        ELSE Returns(signed.val, SyntacticVerify(Deref(signed.val), fault),
                     calls \o <<"NewSigned", "SyntacticVerify">>)

\* The embedded builder's methods: the fee (and stake) spent, the tx signed by
\* the spenders and verified; no tx on any error.
EmbeddedNewTx(c, type, keys, amount, fee, changeAddr, fault, calls) ==
    LET spent == Spend(c.utxos, keys, amount, fee, changeAddr)
        signed == NewSigned(UnsignedTx(type, spent.ins, spent.outs), spent.signers, fault)
    IN  IF spent.err # ErrNil THEN Returns(Nil, spent.err, calls \o <<"builder">>)
        ELSE IF signed.err # ErrNil THEN Returns(Nil, signed.err, calls \o <<"builder">>)
        ELSE IF SyntacticVerify(Deref(signed.val), fault) # ErrNil
        THEN Returns(Nil, errSyntactic, calls \o <<"builder">>)
        ELSE Returns(signed.val, ErrNil, calls \o <<"builder">>)

\* The embedded builder's NewRewardValidatorTx: no inputs, no credentials.
EmbeddedNewRewardValidatorTx(fault, calls) ==
    LET signed == NewSigned(UnsignedTx("RewardValidatorTx", <<>>, <<>>), <<>>, fault)
    IN  IF signed.err # ErrNil THEN Returns(Nil, signed.err, calls \o <<"builder">>)
        ELSE IF SyntacticVerify(Deref(signed.val), fault) # ErrNil
        THEN Returns(Nil, errSyntactic, calls \o <<"builder">>)
        ELSE Returns(signed.val, ErrNil, calls \o <<"builder">>)

NewAddValidatorTx(c, stakeAmount, keys, changeAddr, fault) ==
    LET caminoGenesis == ChainCaminoConfig(c, fault)
        planned == Lock(c.utxos, keys, stakeAmount, AddPrimaryNetworkValidatorFee,
                        StateBonded, changeAddr)
    IN  IF caminoGenesis.err # ErrNil
        THEN Returns(Nil, caminoGenesis.err, <<"CaminoConfig">>)
        ELSE IF ~Deref(caminoGenesis.val).LockModeBondDeposit
        THEN EmbeddedNewTx(c, "AddValidatorTx", keys, stakeAmount,
                           AddPrimaryNetworkValidatorFee, changeAddr, fault,
                           <<"CaminoConfig">>)
        ELSE IF planned.err # ErrNil
        THEN Returns(Nil, planned.err, <<"CaminoConfig", "Lock">>)
        ELSE SignAndVerify(UnsignedTx("CaminoAddValidatorTx", planned.ins, planned.outs),
                           planned.signers, fault, <<"CaminoConfig", "Lock">>)

\* NewAddSubnetValidatorTx asking for the node key whatever the configuration
NewAddSubnetValidatorTx_AlwaysNodeKey(c, nodeID, keys, changeAddr, fault) ==
    LET embedded == EmbeddedNewTx(c, "AddSubnetValidatorTx", keys, 0, TxFee, changeAddr,
                                  fault, <<>>)
        caminoGenesis == ChainCaminoConfig(c, fault)
        nodeSigners == getSigner(keys, nodeID)
        signed == Sign(Deref(embedded.tx), <<nodeSigners.val>>, fault)
    IN  IF embedded.err # ErrNil THEN Returns(Nil, embedded.err, <<"builder">>)
        ELSE IF caminoGenesis.err # ErrNil
        THEN Returns(Nil, caminoGenesis.err, <<"builder", "CaminoConfig">>)
        ELSE IF nodeSigners.err # ErrNil
        THEN Returns(Nil, nodeSigners.err, <<"builder", "CaminoConfig">>)
        ELSE IF signed.err # ErrNil
        THEN Returns(Nil, signed.err, <<"builder", "CaminoConfig", "Sign">>)
        ELSE Returns(signed.val, SyntacticVerify(Deref(signed.val), fault),
                     <<"builder", "CaminoConfig", "Sign", "SyntacticVerify">>)

NewAddSubnetValidatorTx(c, nodeID, keys, changeAddr, fault) ==
    LET embedded == EmbeddedNewTx(c, "AddSubnetValidatorTx", keys, 0, TxFee, changeAddr,
                                  fault, <<>>)
        caminoGenesis == ChainCaminoConfig(c, fault)
        nodeSigners == getSigner(keys, nodeID)
        signed == Sign(Deref(embedded.tx), <<nodeSigners.val>>, fault)
    IN  IF embedded.err # ErrNil THEN Returns(Nil, embedded.err, <<"builder">>)
        ELSE IF caminoGenesis.err # ErrNil
        THEN Returns(Nil, caminoGenesis.err, <<"builder", "CaminoConfig">>)
        ELSE IF ~Deref(caminoGenesis.val).VerifyNodeSignature
        THEN Returns(embedded.tx, ErrNil, <<"builder", "CaminoConfig">>)
        ELSE IF nodeSigners.err # ErrNil
        THEN Returns(Nil, nodeSigners.err, <<"builder", "CaminoConfig">>)
        ELSE IF signed.err # ErrNil
        THEN Returns(Nil, signed.err, <<"builder", "CaminoConfig", "Sign">>)
        ELSE Returns(signed.val, SyntacticVerify(Deref(signed.val), fault),
                     <<"builder", "CaminoConfig", "Sign", "SyntacticVerify">>)

\* NewRewardValidatorTx unlocking the bonded outputs of every validator tx
NewRewardValidatorTx_AnyTxID(c, txID, fault) ==
    LET caminoGenesis == ChainCaminoConfig(c, fault)
        planned == Unlock(c.utxos, {"v0", "v1"}, StateBonded)
    IN  IF caminoGenesis.err # ErrNil
        THEN Returns(Nil, caminoGenesis.err, <<"CaminoConfig">>)
        ELSE IF ~Deref(caminoGenesis.val).LockModeBondDeposit
        THEN EmbeddedNewRewardValidatorTx(fault, <<"CaminoConfig">>)
        ELSE IF planned.err # ErrNil
        THEN Returns(Nil, planned.err, <<"CaminoConfig", "Unlock">>)
        ELSE SignAndVerify(UnsignedTx("CaminoRewardValidatorTx", planned.ins, planned.outs),
                           <<>>, fault, <<"CaminoConfig", "Unlock">>)

NewRewardValidatorTx(c, txID, fault) ==
    LET caminoGenesis == ChainCaminoConfig(c, fault)
        planned == Unlock(c.utxos, {txID}, StateBonded)
    IN  IF caminoGenesis.err # ErrNil
        THEN Returns(Nil, caminoGenesis.err, <<"CaminoConfig">>)
        ELSE IF ~Deref(caminoGenesis.val).LockModeBondDeposit
        THEN EmbeddedNewRewardValidatorTx(fault, <<"CaminoConfig">>)
        ELSE IF planned.err # ErrNil
        THEN Returns(Nil, planned.err, <<"CaminoConfig", "Unlock">>)
        ELSE SignAndVerify(UnsignedTx("CaminoRewardValidatorTx", planned.ins, planned.outs),
                           <<>>, fault, <<"CaminoConfig", "Unlock">>)

NewAddressStateTx(c, keys, changeAddr, fault) ==
    LET planned == Lock(c.utxos, keys, 0, TxFee, StateUnlocked, changeAddr)
    IN  IF planned.err # ErrNil THEN Returns(Nil, planned.err, <<"Lock">>)
        ELSE SignAndVerify(UnsignedTx("AddressStateTx", planned.ins, planned.outs),
                           planned.signers, fault, <<"Lock">>)

\* NewDepositTx planning the spend before it looks at the lock mode
NewDepositTx_PlanFirst(c, amount, keys, changeAddr, fault) ==
    LET caminoGenesis == ChainCaminoConfig(c, fault)
        planned == Lock(c.utxos, keys, amount, TxFee, StateDeposited, changeAddr)
    IN  IF caminoGenesis.err # ErrNil
        THEN Returns(Nil, caminoGenesis.err, <<"CaminoConfig">>)
        ELSE IF planned.err # ErrNil
        THEN Returns(Nil, planned.err, <<"CaminoConfig", "Lock">>)
        ELSE IF ~Deref(caminoGenesis.val).LockModeBondDeposit
        THEN Returns(Nil, errWrongLockMode, <<"CaminoConfig", "Lock">>)
        ELSE SignAndVerify(UnsignedTx("DepositTx", planned.ins, planned.outs),
                           planned.signers, fault, <<"CaminoConfig", "Lock">>)

NewDepositTx(c, amount, keys, changeAddr, fault) ==
    LET caminoGenesis == ChainCaminoConfig(c, fault)
        planned == Lock(c.utxos, keys, amount, TxFee, StateDeposited, changeAddr)
    IN  IF caminoGenesis.err # ErrNil
        THEN Returns(Nil, caminoGenesis.err, <<"CaminoConfig">>)
        ELSE IF ~Deref(caminoGenesis.val).LockModeBondDeposit
        THEN Returns(Nil, errWrongLockMode, <<"CaminoConfig">>)
        ELSE IF planned.err # ErrNil
        THEN Returns(Nil, planned.err, <<"CaminoConfig", "Lock">>)
        ELSE SignAndVerify(UnsignedTx("DepositTx", planned.ins, planned.outs),
                           planned.signers, fault, <<"CaminoConfig", "Lock">>)

\* []ids.ID as the set of its elements
RECURSIVE Elements(_)
Elements(q) == IF q = <<>> THEN {} ELSE {Head(q)} \cup Elements(Tail(q))

\* NewUnlockDepositTx leaving the fee plan's outputs out of the tx
NewUnlockDepositTx_NoFeeOuts(c, lockTxIDs, keys, changeAddr, fault) ==
    LET caminoGenesis == ChainCaminoConfig(c, fault)
        unlocked == UnlockDeposit(c, keys, Elements(lockTxIDs))
        fee == Lock(c.utxos, keys, 0, TxFee, StateUnlocked, changeAddr)
        sorted == SortTransferableInputsWithSigners(unlocked.ins \o fee.ins,
                                                    unlocked.signers \o fee.signers)
        outs == SortTransferableOutputs(unlocked.outs)
    IN  IF caminoGenesis.err # ErrNil
        THEN Returns(Nil, caminoGenesis.err, <<"CaminoConfig">>)
        ELSE IF ~Deref(caminoGenesis.val).LockModeBondDeposit
        THEN Returns(Nil, errWrongLockMode, <<"CaminoConfig">>)
        ELSE IF unlocked.err # ErrNil
        THEN Returns(Nil, unlocked.err, <<"CaminoConfig", "UnlockDeposit">>)
        ELSE IF fee.err # ErrNil
        THEN Returns(Nil, fee.err, <<"CaminoConfig", "UnlockDeposit", "Lock">>)
        ELSE SignAndVerify(UnsignedTx("UnlockDepositTx", sorted.ins, outs),
                           sorted.signers, fault,
                           <<"CaminoConfig", "UnlockDeposit", "Lock">>)

\* NewUnlockDepositTx sorting the inputs and leaving the signers in the order
\* the two plans were appended
NewUnlockDepositTx_SignersAsAppended(c, lockTxIDs, keys, changeAddr, fault) ==
    LET caminoGenesis == ChainCaminoConfig(c, fault)
        unlocked == UnlockDeposit(c, keys, Elements(lockTxIDs))
        fee == Lock(c.utxos, keys, 0, TxFee, StateUnlocked, changeAddr)
        sorted == SortTransferableInputsWithSigners(unlocked.ins \o fee.ins,
                                                    unlocked.signers \o fee.signers)
        outs == SortTransferableOutputs(unlocked.outs \o fee.outs)
    IN  IF caminoGenesis.err # ErrNil
        THEN Returns(Nil, caminoGenesis.err, <<"CaminoConfig">>)
        ELSE IF ~Deref(caminoGenesis.val).LockModeBondDeposit
        THEN Returns(Nil, errWrongLockMode, <<"CaminoConfig">>)
        ELSE IF unlocked.err # ErrNil
        THEN Returns(Nil, unlocked.err, <<"CaminoConfig", "UnlockDeposit">>)
        ELSE IF fee.err # ErrNil
        THEN Returns(Nil, fee.err, <<"CaminoConfig", "UnlockDeposit", "Lock">>)
        ELSE SignAndVerify(UnsignedTx("UnlockDepositTx", sorted.ins, outs),
                           unlocked.signers \o fee.signers, fault,
                           <<"CaminoConfig", "UnlockDeposit", "Lock">>)

NewUnlockDepositTx(c, lockTxIDs, keys, changeAddr, fault) ==
    LET caminoGenesis == ChainCaminoConfig(c, fault)
        unlocked == UnlockDeposit(c, keys, Elements(lockTxIDs))
        fee == Lock(c.utxos, keys, 0, TxFee, StateUnlocked, changeAddr)
        sorted == SortTransferableInputsWithSigners(unlocked.ins \o fee.ins,
                                                    unlocked.signers \o fee.signers)
        outs == SortTransferableOutputs(unlocked.outs \o fee.outs)
    IN  IF caminoGenesis.err # ErrNil
        THEN Returns(Nil, caminoGenesis.err, <<"CaminoConfig">>)
        ELSE IF ~Deref(caminoGenesis.val).LockModeBondDeposit
        THEN Returns(Nil, errWrongLockMode, <<"CaminoConfig">>)
        ELSE IF unlocked.err # ErrNil
        THEN Returns(Nil, unlocked.err, <<"CaminoConfig", "UnlockDeposit">>)
        ELSE IF fee.err # ErrNil
        THEN Returns(Nil, fee.err, <<"CaminoConfig", "UnlockDeposit", "Lock">>)
        ELSE SignAndVerify(UnsignedTx("UnlockDepositTx", sorted.ins, outs),
                           sorted.signers, fault,
                           <<"CaminoConfig", "UnlockDeposit", "Lock">>)

\* The two loops of NewClaimTx over the deposit tx ids and over the claimable
\* owner ids: the keys matching every owner are added to claimableSignersKC;
\* the first owner that cannot be found or matched ends the call.
Collected(keysList, e, calls) == [keys |-> keysList, err |-> e, calls |-> calls]

RECURSIVE DepositSigners(_, _, _, _)
DepositSigners(depositTxIDs, kc, claimableSignersKC, calls) ==
    IF depositTxIDs = <<>> THEN Collected(claimableSignersKC, ErrNil, calls)
    ELSE LET depositRewardsOwner == getDepositRewardsOwner(Head(depositTxIDs))
             matched == KeychainMatch(kc, Deref(depositRewardsOwner.val), Now)
         IN  IF depositRewardsOwner.err # ErrNil
             THEN Collected(<<>>, depositRewardsOwner.err, calls \o <<"GetTx">>)
             ELSE IF ~matched.able
             THEN Collected(<<>>, errKeyMissing, calls \o <<"GetTx">>)
             ELSE DepositSigners(Tail(depositTxIDs), kc,
                                 KeychainAddAll(claimableSignersKC, matched.keys),
                                 calls \o <<"GetTx">>)

RECURSIVE ClaimableSigners(_, _, _, _)
\* The loop over the claimable owner ids without its errKeyMissing return
ClaimableSigners_Unchecked(claimableOwnerIDs, kc, claimableSignersKC, calls) ==
    IF claimableOwnerIDs = <<>> THEN Collected(claimableSignersKC, ErrNil, calls)
    ELSE LET claimable == ChainGetClaimable(Head(claimableOwnerIDs))
             matched == KeychainMatch(kc, Deref(claimable.val).Owner, Now)
         IN  IF claimable.err # ErrNil
             THEN Collected(<<>>, claimable.err, calls \o <<"GetClaimable">>)
             ELSE ClaimableSigners(Tail(claimableOwnerIDs), kc,
                                   KeychainAddAll(claimableSignersKC, matched.keys),
                                   calls \o <<"GetClaimable">>)

ClaimableSigners(claimableOwnerIDs, kc, claimableSignersKC, calls) ==
    IF claimableOwnerIDs = <<>> THEN Collected(claimableSignersKC, ErrNil, calls)
    ELSE LET claimable == ChainGetClaimable(Head(claimableOwnerIDs))
             matched == KeychainMatch(kc, Deref(claimable.val).Owner, Now)
         IN  IF claimable.err # ErrNil
             THEN Collected(<<>>, claimable.err, calls \o <<"GetClaimable">>)
             ELSE IF ~matched.able
             THEN Collected(<<>>, errKeyMissing, calls \o <<"GetClaimable">>)
             ELSE ClaimableSigners(Tail(claimableOwnerIDs), kc,
                                   KeychainAddAll(claimableSignersKC, matched.keys),
                                   calls \o <<"GetClaimable">>)

\* signers = append(signers, claimableSignersKC.Keys)
ClaimSigners(signers, claimableSignersKC) == Append(signers, claimableSignersKC)

NewClaimTx(c, depositTxIDs, claimableOwnerIDs, keys, changeAddr, fault) ==
    LET caminoGenesis == ChainCaminoConfig(c, fault)
        planned == Lock(c.utxos, keys, 0, TxFee, StateUnlocked, changeAddr)
        forDeposits == DepositSigners(depositTxIDs, keys, <<>>, <<"CaminoConfig", "Lock">>)
        forClaimables == ClaimableSigners(claimableOwnerIDs, keys, forDeposits.keys,
                                          forDeposits.calls)
    IN  IF caminoGenesis.err # ErrNil
        THEN Returns(Nil, caminoGenesis.err, <<"CaminoConfig">>)
        ELSE IF ~Deref(caminoGenesis.val).LockModeBondDeposit
        THEN Returns(Nil, errWrongLockMode, <<"CaminoConfig">>)
        ELSE IF planned.err # ErrNil
        THEN Returns(Nil, planned.err, <<"CaminoConfig", "Lock">>)
        ELSE IF forDeposits.err # ErrNil
        THEN Returns(Nil, forDeposits.err, forDeposits.calls)
        ELSE IF forClaimables.err # ErrNil
        THEN Returns(Nil, forClaimables.err, forClaimables.calls)
        ELSE SignAndVerify(UnsignedTx("ClaimTx", planned.ins, planned.outs),
                           ClaimSigners(planned.signers, forClaimables.keys), fault,
                           forClaimables.calls)

\* The consortium members of the state: the plain addresses, and the multisig
\* alias M owned by A and B together.
MsigAlias == "M"
ConsortiumMemberAddrs == BuilderAddrs \cup {MsigAlias}
MultisigOwners(address) ==
    IF address = MsigAlias THEN OutputOwners(0, 2, <<"A", "B">>)
    ELSE OutputOwners(0, 1, <<address>>)

\* keychain.SpendMultiSig for an output owned by one address with threshold 1:
\* the address is resolved to its owners; the input carries the positions,
\* counted from 0, of the signing addresses in the owners' address list, the
\* signers are their keys in the same order.
SpendMultiSig(kc, address) ==
    LET owners == MultisigOwners(address)
        held == SelectSeq([i \in 1 .. Len(owners.Addrs) |-> i],
                          LAMBDA i : owners.Addrs[i] \in kc)
    IN  IF Len(held) < owners.Threshold
        THEN [in |-> [SigIndices |-> <<>>], signers |-> <<>>, err |-> "errCantSpend"]
        ELSE [in |-> [SigIndices |-> [k \in 1 .. owners.Threshold |-> held[k] - 1]],
              signers |-> [k \in 1 .. owners.Threshold |-> owners.Addrs[held[k]]],
              err |-> ErrNil]

\* txs.RegisterNodeTx
RegisterNodeTx(ins, outs, sigIndices) ==
    [type |-> "RegisterNodeTx", Ins |-> ins, Outs |-> outs, Creds |-> <<>>,
     ConsortiumMemberAuth |-> [SigIndices |-> sigIndices]]

\* NewRegisterNodeTx appending the consortium signers before the node signers
NewRegisterNodeTx_ConsortiumFirst(c, newNodeID, consortiumMemberAddress, keys, changeAddr, fault) ==
    LET planned == Lock(c.utxos, keys, 0, TxFee, StateUnlocked, changeAddr)
        nodeSigners == IF newNodeID # EmptyNodeID THEN getSigner(keys, newNodeID)
                       ELSE Result(<<>>, ErrNil)
        consortium == SpendMultiSig(keys, consortiumMemberAddress)
    IN  IF planned.err # ErrNil THEN Returns(Nil, planned.err, <<"Lock">>)
        ELSE IF nodeSigners.err # ErrNil THEN Returns(Nil, nodeSigners.err, <<"Lock">>)
        ELSE IF consortium.err # ErrNil
        THEN Returns(Nil, consortium.err, <<"Lock", "SpendMultiSig">>)
        ELSE SignAndVerify(RegisterNodeTx(planned.ins, planned.outs,
                                          consortium.in.SigIndices),
                           planned.signers \o <<consortium.signers>> \o <<nodeSigners.val>>,
                           fault, <<"Lock", "SpendMultiSig">>)

NewRegisterNodeTx(c, newNodeID, consortiumMemberAddress, keys, changeAddr, fault) ==
    LET planned == Lock(c.utxos, keys, 0, TxFee, StateUnlocked, changeAddr)
        nodeSigners == IF newNodeID # EmptyNodeID THEN getSigner(keys, newNodeID)
                       ELSE Result(<<>>, ErrNil)
        consortium == SpendMultiSig(keys, consortiumMemberAddress)
    IN  IF planned.err # ErrNil THEN Returns(Nil, planned.err, <<"Lock">>)
        ELSE IF nodeSigners.err # ErrNil THEN Returns(Nil, nodeSigners.err, <<"Lock">>)
        ELSE IF consortium.err # ErrNil
        THEN Returns(Nil, consortium.err, <<"Lock", "SpendMultiSig">>)
        ELSE SignAndVerify(RegisterNodeTx(planned.ins, planned.outs,
                                          consortium.in.SigIndices),
                           planned.signers \o <<nodeSigners.val>> \o <<consortium.signers>>,
                           fault, <<"Lock", "SpendMultiSig">>)

\* The loop of NewRewardsImportTx over the bytes shared memory returned:
\* what does not decode is skipped, what is older than the sync bound is kept.
\* The clock and the timestamps are uint64: now - SharedMemorySyncBound is
\* computed modulo the width, here 2^UnixBits with every time of the model
\* below it.
UnixBits == 10
SubUint64(a, b) == (a - b) % (2 ^ UnixBits)

\* b.clk.Unix() at the call: the clock of the other methods, and a clock that
\* has not yet reached the sync bound.
ClockValues == {Now, 20}

ImportableUTXOs(allUTXOsBytes, now) ==
    SelectSeq(allUTXOsBytes,
              LAMBDA utxo : utxo.decodes
                            /\ utxo.Timestamp <= SubUint64(now, SharedMemorySyncBound))

\* avax.SortTransferableInputs
SortTransferableInputs(ins) == SortBy(ins, [i \in 1 .. Len(ins) |-> ins[i].id])

\* NewRewardsImportTx returning the codec's error for an entry that does not
\* decode
NewRewardsImportTx_DecodeOrFail(c, now, fault) ==
    LET caminoGenesis == ChainCaminoConfig(c, fault)
        utxos == ImportableUTXOs(c.sharedMemory, now)
        ins == SortTransferableInputs([i \in 1 .. Len(utxos) |-> TransferableInput(utxos[i])])
    IN  IF caminoGenesis.err # ErrNil
        THEN Returns(Nil, caminoGenesis.err, <<"CaminoConfig">>)
        ELSE IF ~Deref(caminoGenesis.val).LockModeBondDeposit
        THEN Returns(Nil, errWrongLockMode, <<"CaminoConfig">>)
        ELSE IF fault = "Indexed"
        THEN Returns(Nil, "errSharedMemory", <<"CaminoConfig", "Indexed">>)
        ELSE IF \E i \in 1 .. Len(c.sharedMemory) : ~c.sharedMemory[i].decodes
        THEN Returns(Nil, errMarshal, <<"CaminoConfig", "Indexed">>)
        ELSE IF Len(utxos) = 0
        THEN Returns(Nil, errNoUTXOsForImport, <<"CaminoConfig", "Indexed">>)
        ELSE IF fault = "Spend"
        THEN Returns(Nil, errCantSpend, <<"CaminoConfig", "Indexed", "Spend">>)
        ELSE IF fault = "NotTransferableIn"
        THEN Returns(Nil, ErrNil, <<"CaminoConfig", "Indexed", "Spend">>)
        ELSE SignAndVerify(UnsignedTx("RewardsImportTx", ins, <<>>), <<>>, fault,
                           <<"CaminoConfig", "Indexed", "Spend">>)

NewRewardsImportTx(c, now, fault) ==
    LET caminoGenesis == ChainCaminoConfig(c, fault)
        utxos == ImportableUTXOs(c.sharedMemory, now)
        ins == SortTransferableInputs([i \in 1 .. Len(utxos) |-> TransferableInput(utxos[i])])
    IN  IF caminoGenesis.err # ErrNil
        THEN Returns(Nil, caminoGenesis.err, <<"CaminoConfig">>)
        ELSE IF ~Deref(caminoGenesis.val).LockModeBondDeposit
        THEN Returns(Nil, errWrongLockMode, <<"CaminoConfig">>)
        ELSE IF fault = "Indexed"
        THEN Returns(Nil, "errSharedMemory", <<"CaminoConfig", "Indexed">>)
        ELSE IF Len(utxos) = 0
        THEN Returns(Nil, errNoUTXOsForImport, <<"CaminoConfig", "Indexed">>)
        ELSE IF fault = "Spend"
        THEN Returns(Nil, errCantSpend, <<"CaminoConfig", "Indexed", "Spend">>)
        ELSE IF fault = "NotTransferableIn"
        THEN Returns(Nil, ErrNil, <<"CaminoConfig", "Indexed", "Spend">>)
        ELSE SignAndVerify(UnsignedTx("RewardsImportTx", ins, <<>>), <<>>, fault,
                           <<"CaminoConfig", "Indexed", "Spend">>)

NewSystemUnlockDepositTx(c, depositTxIDs, fault) ==
    LET planned == Unlock(c.utxos, Elements(depositTxIDs), StateDeposited)
    IN  IF planned.err # ErrNil THEN Returns(Nil, planned.err, <<"Unlock">>)
        ELSE SignAndVerify(UnsignedTx("UnlockDepositTx", planned.ins, planned.outs),
                           [i \in 1 .. Len(planned.ins) |-> <<>>], fault, <<"Unlock">>)

(***************************************************************************)
(* The builder as a state machine: a builder is constructed over some      *)
(* chain state and one of its methods is called once.  The methods only    *)
(* read; every call leaves the chain state and the layered state alone.    *)
(***************************************************************************)
MaxClaimIDs == 2

SeqsUpTo(S, n) == UNION {[1 .. k -> S] : k \in 0 .. n}

CodecFaults == {"none", "NewSigned", "SyntacticVerify"}
ChangeAddr == "A"

InitBuilder ==
    /\ base = InitBase
    /\ diffs = <<>>
    /\ processing = {}
    /\ lastAccepted = GenesisID
    /\ applied = NoDiff
    /\ applyCount = 0
    /\ written = <<>>
    /\ nops = 0
    /\ published = {}
    /\ applyCall = NoApplyCall
    /\ observed = InitBase
    /\ committed = {InitBase}
    /\ chain \in Chains
    /\ built = NoBuild
    /\ reply = NoReply
    /\ mempool = {}
    /\ info = NoInfo

BuilderCall(method, args, ret) ==
    /\ built' = [method |-> method, args |-> args, tx |-> ret.tx, err |-> ret.err,
                 calls |-> ret.calls]
    /\ UNCHANGED <<base, diffs, processing, lastAccepted, applied, applyCount, written, nops,
                   published, applyVars, chain, serviceVars, info>>

CallNewAddValidatorTx ==
    /\ built = NoBuild
    /\ \E stakeAmount \in {40, 2000}, keys \in KeyLists, fault \in Faults :
           BuilderCall("NewAddValidatorTx",
                       [stakeAmount |-> stakeAmount, keys |-> keys, fault |-> fault],
                       NewAddValidatorTx(chain, stakeAmount, keys, ChangeAddr, fault))

CallNewAddSubnetValidatorTx ==
    /\ built = NoBuild
    /\ \E nodeID \in BuilderNodeIDs, keys \in KeyLists, fault \in Faults :
           BuilderCall("NewAddSubnetValidatorTx",
                       [nodeID |-> nodeID, keys |-> keys, fault |-> fault],
                       NewAddSubnetValidatorTx(chain, nodeID, keys, ChangeAddr, fault))

CallNewRewardValidatorTx ==
    /\ built = NoBuild
    /\ \E txID \in {"v0", "v1"}, fault \in Faults :
           BuilderCall("NewRewardValidatorTx", [txID |-> txID, fault |-> fault],
                       NewRewardValidatorTx(chain, txID, fault))

CallNewAddressStateTx ==
    /\ built = NoBuild
    /\ \E keys \in KeyLists, fault \in CodecFaults :
           BuilderCall("NewAddressStateTx", [keys |-> keys, fault |-> fault],
                       NewAddressStateTx(chain, keys, ChangeAddr, fault))

CallNewDepositTx ==
    /\ built = NoBuild
    /\ \E amount \in {500, 2000}, keys \in KeyLists, fault \in Faults :
           BuilderCall("NewDepositTx", [amount |-> amount, keys |-> keys, fault |-> fault],
                       NewDepositTx(chain, amount, keys, ChangeAddr, fault))

CallNewUnlockDepositTx ==
    /\ built = NoBuild
    /\ \E lockTxIDs \in SeqsUpTo({"d1"}, 1), keys \in KeyLists, fault \in Faults :
           BuilderCall("NewUnlockDepositTx",
                       [lockTxIDs |-> lockTxIDs, keys |-> keys, fault |-> fault],
                       NewUnlockDepositTx(chain, lockTxIDs, keys, ChangeAddr, fault))

CallNewClaimTx ==
    /\ built = NoBuild
    /\ \E depositTxIDs \in SeqsUpTo(BuilderTxIDs, MaxClaimIDs),
          claimableOwnerIDs \in SeqsUpTo(ClaimableOwnerIDs, MaxClaimIDs),
          keys \in KeyLists, fault \in Faults :
           /\ Len(depositTxIDs) + Len(claimableOwnerIDs) <= MaxClaimIDs
           /\ BuilderCall("NewClaimTx",
                          [depositTxIDs |-> depositTxIDs,
                           claimableOwnerIDs |-> claimableOwnerIDs,
                           keys |-> keys, fault |-> fault],
                          NewClaimTx(chain, depositTxIDs, claimableOwnerIDs, keys, ChangeAddr,
                                     fault))

CallNewRegisterNodeTx ==
    /\ built = NoBuild
    /\ \E newNodeID \in BuilderNodeIDs \cup {EmptyNodeID},
          consortiumMemberAddress \in ConsortiumMemberAddrs, keys \in KeyLists,
          fault \in CodecFaults :
           BuilderCall("NewRegisterNodeTx",
                       [newNodeID |-> newNodeID,
                        consortiumMemberAddress |-> consortiumMemberAddress,
                        keys |-> keys, fault |-> fault],
                       NewRegisterNodeTx(chain, newNodeID, consortiumMemberAddress, keys,
                                         ChangeAddr, fault))

CallNewRewardsImportTx ==
    /\ built = NoBuild
    /\ \E now \in ClockValues, fault \in Faults \cup {"Indexed"} \cup SpendFaults :
           BuilderCall("NewRewardsImportTx", [now |-> now, fault |-> fault],
                       NewRewardsImportTx(chain, now, fault))

CallNewSystemUnlockDepositTx ==
    /\ built = NoBuild
    /\ \E depositTxIDs \in SeqsUpTo({"d1"}, 1), fault \in CodecFaults :
           BuilderCall("NewSystemUnlockDepositTx",
                       [depositTxIDs |-> depositTxIDs, fault |-> fault],
                       NewSystemUnlockDepositTx(chain, depositTxIDs, fault))

NextBuilder ==
    \/ CallNewAddValidatorTx
    \/ CallNewAddSubnetValidatorTx
    \/ CallNewRewardValidatorTx
    \/ CallNewAddressStateTx
    \/ CallNewDepositTx
    \/ CallNewUnlockDepositTx
    \/ CallNewClaimTx
    \/ CallNewRegisterNodeTx
    \/ CallNewRewardsImportTx
    \/ CallNewSystemUnlockDepositTx

SpecBuilder == InitBuilder /\ [][NextBuilder]_vars

(***************************************************************************)
(* Claims about the transaction builder                                    *)
(***************************************************************************)
Called(method) == built.method = method
CalledAny == built # NoBuild
LockModeOff == ~chain.caminoConfig.LockModeBondDeposit
LockModeMethods == {"NewDepositTx", "NewUnlockDepositTx", "NewClaimTx", "NewRewardsImportTx"}

\* C14: with LockModeBondDeposit off in the state's CaminoConfig, NewDepositTx,
\* NewUnlockDepositTx, NewClaimTx and NewRewardsImportTx return
\* errWrongLockMode and no tx, and the only collaborator they have called is
\* the state's CaminoConfig: no spend planner, no shared memory and no other
\* state getter.
C14_LockModeGating ==
    (/\ CalledAny
     /\ built.method \in LockModeMethods
     /\ LockModeOff
     /\ built.args.fault # "CaminoConfig")
        => /\ built.err = errWrongLockMode
           /\ built.tx = Nil
           /\ built.calls = <<"CaminoConfig">>

\* A claim for a deposit and a claimable the keys could sign for, with the fee
\* payable, is turned down for the lock mode.
C14_Witness ==
    /\ Called("NewClaimTx")
    /\ LockModeOff
    /\ built.args.depositTxIDs = <<"d1">>
    /\ built.args.claimableOwnerIDs = <<"oA">>
    /\ built.args.keys = {"A"}
    /\ \E u \in chain.utxos : u.addr = "A" /\ u.lockState = StateUnlocked
    /\ built.err = errWrongLockMode

\* C15: whenever a builder method returns an error, the error of the final
\* syntactic verification included, the tx it returns is nil.
C15_FailedBuildsProduceNothing ==
    (CalledAny /\ built.err # ErrNil) => built.tx = Nil

Produced == CalledAny /\ built.err = ErrNil /\ built.tx # Nil
SystemMethods == {"NewRewardValidatorTx", "NewRewardsImportTx", "NewSystemUnlockDepositTx"}

\* The credential an input calls for: the key of the owner of the UTXO it
\* spends, none in a system-driven tx.
InputCredential(method, in) ==
    IF method \in SystemMethods THEN <<>>
    ELSE LET utxo == CHOOSE u \in UTXOPool : u.id = in.id IN <<utxo.addr>>

\* The number of role credentials the tx type declares
RoleCredentials(method) ==
    CASE method = "NewAddSubnetValidatorTx" ->
            IF chain.caminoConfig.VerifyNodeSignature THEN 1 ELSE 0
      [] method = "NewRegisterNodeTx" -> 2
      [] method = "NewClaimTx" ->
            Len(built.args.depositTxIDs) + Len(built.args.claimableOwnerIDs)
      [] OTHER -> 0

\* C16: a tx the builder produces carries one credential per input, in input
\* order (empty ones in the system-driven txs), followed by the role
\* credentials of its type and nothing else.  How many role credentials a
\* claim carries is the subject of C17 and left open here.
C16_CredentialShape ==
    Produced =>
        LET tx == Deref(built.tx)
        IN  /\ Len(tx.Creds) >= Len(tx.Ins)
            /\ \A i \in 1 .. Len(tx.Ins) : tx.Creds[i] = InputCredential(built.method, tx.Ins[i])
            /\ built.method # "NewClaimTx"
                  => Len(tx.Creds) = Len(tx.Ins) + RoleCredentials(built.method)

\* The credential of an owner: the supplied keys that match it
OwnerCredential(owner) == KeychainMatch(built.args.keys, owner, Now).keys

\* C17: a tx produced by NewClaimTx for d deposit tx ids and c claimable owner
\* ids carries, after the per-input credentials, d + c credentials: one per
\* deposit's rewards owner, then one per claimable owner.
C17_ClaimCredentials ==
    (Produced /\ Called("NewClaimTx")) =>
        LET tx == Deref(built.tx)
            n == Len(tx.Ins)
            depositTxIDs == built.args.depositTxIDs
            claimableOwnerIDs == built.args.claimableOwnerIDs
            d == Len(depositTxIDs)
        IN  /\ Len(tx.Creds) = n + d + Len(claimableOwnerIDs)
            /\ \A i \in 1 .. d :
                  tx.Creds[n + i] = OwnerCredential(StoredTxs[depositTxIDs[i]].RewardsOwner)
            /\ \A j \in 1 .. Len(claimableOwnerIDs) :
                  tx.Creds[n + d + j] = OwnerCredential(StoredClaimables[claimableOwnerIDs[j]].Owner)

\* The keys satisfy an owner: the owner's locktime has passed and at least
\* threshold of its addresses have their key among them.
Satisfiable(owner, keys) ==
    /\ owner.Locktime <= Now
    /\ Cardinality({i \in DOMAIN owner.Addrs : owner.Addrs[i] \in keys}) >= owner.Threshold

\* A claim is requested with lock mode on, the config readable and the fee
\* payable, for deposit tx ids that are committed deposits with a secp owner.
ClaimRequested ==
    /\ Called("NewClaimTx")
    /\ ~LockModeOff
    /\ built.args.fault # "CaminoConfig"
    /\ Lock(chain.utxos, built.args.keys, 0, TxFee, StateUnlocked, ChangeAddr).err = ErrNil
    /\ \A i \in DOMAIN built.args.depositTxIDs :
          getDepositRewardsOwner(built.args.depositTxIDs[i]).err = ErrNil

ClaimablesPresent ==
    \A j \in DOMAIN built.args.claimableOwnerIDs :
        built.args.claimableOwnerIDs[j] \in DOMAIN StoredClaimables

\* The owners the request names and the state knows
RequestedOwners ==
    {StoredTxs[built.args.depositTxIDs[i]].RewardsOwner : i \in DOMAIN built.args.depositTxIDs}
    \cup {StoredClaimables[id].Owner :
             id \in Elements(built.args.claimableOwnerIDs) \cap DOMAIN StoredClaimables}

AllSatisfiable == \A owner \in RequestedOwners : Satisfiable(owner, built.args.keys)

HeldUTXOs == {u \in chain.utxos : u.addr \in built.args.keys}

\* C19: when the only UTXO of the key holder is a deposited UTXO of amount A
\* whose deposit has expired, NewUnlockDepositTx for that deposit succeeds with
\* a tx whose only input is that UTXO and whose outputs are unlocked and total
\* A - TxFee.
C19_ExpiredUnlockPaysFee ==
    (/\ Called("NewUnlockDepositTx")
     /\ ~LockModeOff
     /\ built.args.fault = "none"
     /\ chain.depositExpired
     /\ built.args.lockTxIDs = <<"d1">>
     /\ \E u \in UTXOPool :
           u.lockState = StateDeposited /\ u.lockTxID = "d1" /\ HeldUTXOs = {u})
        => /\ built.err = ErrNil
           /\ built.tx # Nil
           /\ LET tx == Deref(built.tx)
                  u == CHOOSE x \in HeldUTXOs : TRUE
              IN  /\ tx.Ins = <<TransferableInput(u)>>
                  /\ \A i \in DOMAIN tx.Outs : tx.Outs[i].lockState = StateUnlocked
                  /\ SumAmounts(tx.Outs) = u.amount - TxFee

\* The fee a tx of the method's type burns
FeeBurned(method) ==
    CASE method \in {"NewAddressStateTx", "NewDepositTx", "NewUnlockDepositTx", "NewClaimTx",
                     "NewRegisterNodeTx", "NewAddSubnetValidatorTx"} -> TxFee
      [] method = "NewAddValidatorTx" -> AddPrimaryNetworkValidatorFee
      [] OTHER -> 0

Balanced(tx, fee) == SumAmounts(tx.Ins) = SumAmounts(tx.Outs) + fee

ReturnedTx == CalledAny /\ built.tx # Nil

C21_SortCanonicity ==
    ReturnedTx =>
        LET tx == Deref(built.tx)
        IN  /\ SortTransferableInputs(tx.Ins) = tx.Ins
            /\ \A i, j \in 1 .. Len(tx.Ins) : i < j => tx.Ins[i].id < tx.Ins[j].id
            /\ SortTransferableOutputs(tx.Outs) = tx.Outs
            /\ (Called("NewUnlockDepositTx") /\ built.err = ErrNil)
                  => \A i \in 1 .. Len(tx.Ins) :
                        tx.Creds[i] = InputCredential(built.method, tx.Ins[i])

\* An unlock whose deposit input (UTXO 3, signed by A) was planned before its
\* fee input (UTXO 2, signed by B): the sort exchanged both the inputs and
\* their signers.
C21_Witness ==
    /\ Called("NewUnlockDepositTx")
    /\ Produced
    /\ Deref(built.tx).Ins = <<[id |-> 2, amount |-> 20], [id |-> 3, amount |-> 500]>>
    /\ Deref(built.tx).Creds = <<<<"B">>, <<"A">>>>
    /\ Len(Deref(built.tx).Outs) = 2

\* ---------------------------------------------------------------------------
\* C22  Rewards import age filter: NewRewardsImportTx imports a cross-chain
\* UTXO only if its timestamp is at least the sync bound older than the clock
\* (timestamp + bound <= now), whatever the clock, a clock below the bound
\* included; when no UTXO qualifies it returns NoUTXOsForImport and no tx.
\* Stated over the calls that pass the configuration and shared-memory steps.
OldEnough(utxo, now) == utxo.decodes /\ utxo.Timestamp + SharedMemorySyncBound <= now

RewardsImportReached ==
    /\ Called("NewRewardsImportTx")
    /\ chain.caminoConfig.LockModeBondDeposit
    /\ built.args.fault = "none"

C22_AgeFilter ==
    RewardsImportReached =>
        LET now == built.args.now
            qualifying == SelectSeq(chain.sharedMemory, LAMBDA utxo : OldEnough(utxo, now))
        IN  IF qualifying = <<>>
            THEN built.tx = Nil /\ built.err = errNoUTXOsForImport
            ELSE /\ built.tx # Nil
                 /\ \A i \in 1 .. Len(Deref(built.tx).Ins) :
                       \E k \in 1 .. Len(qualifying) :
                          Deref(built.tx).Ins[i].id = qualifying[k].id

\* ---------------------------------------------------------------------------
\* C23  Rewards import skips undecodable entries: a shared-memory entry that
\* does not decode as a timed UTXO neither fails NewRewardsImportTx nor becomes
\* an input; the inputs of the produced tx are the decodable entries that pass
\* the age test of the code, one input per entry, and the call returns
\* NoUTXOsForImport only when there is no such entry.
PassesAgeTest(utxo, now) ==
    utxo.decodes /\ utxo.Timestamp <= SubUint64(now, SharedMemorySyncBound)

C23_UndecodableSkipped ==
    RewardsImportReached =>
        LET selected == {i \in 1 .. Len(chain.sharedMemory) :
                            PassesAgeTest(chain.sharedMemory[i], built.args.now)}
        IN  IF selected = {}
            THEN built.tx = Nil /\ built.err = errNoUTXOsForImport
            ELSE /\ built.err = ErrNil
                 /\ built.tx # Nil
                 /\ Len(Deref(built.tx).Ins) = Cardinality(selected)
                 /\ \A i \in selected :
                       \E k \in 1 .. Len(Deref(built.tx).Ins) :
                          Deref(built.tx).Ins[k] = TransferableInput(chain.sharedMemory[i])

\* Shared memory held an undecodable entry between decodable ones and the tx
\* was produced from the two entries old enough.
C23_Witness ==
    /\ RewardsImportReached
    /\ built.args.now = Now
    /\ \E i \in 1 .. Len(chain.sharedMemory) : ~chain.sharedMemory[i].decodes
    /\ Len(chain.sharedMemory) = 4
    /\ Produced
    /\ Deref(built.tx).Ins = <<[id |-> 5, amount |-> 7], [id |-> 6, amount |-> 9]>>

\* ---------------------------------------------------------------------------
\* C24  Node signature on subnet validator: once the underlying builder has
\* produced its tx and the configuration was read, NewAddSubnetValidatorTx
\* returns that tx unchanged when VerifyNodeSignature is off; when it is on it
\* returns KeyMissing and no tx if the keys hold no key for the node id, and
\* otherwise that tx with one more credential, made by the key whose address
\* is the node id.  The node credential is there iff VerifyNodeSignature is on.
UnderlyingSubnetTx ==
    EmbeddedNewTx(chain, "AddSubnetValidatorTx", built.args.keys, 0, TxFee,
                  ChangeAddr, built.args.fault, <<>>)

SubnetValidatorReached ==
    /\ Called("NewAddSubnetValidatorTx")
    /\ built.args.fault = "none"
    /\ UnderlyingSubnetTx.err = ErrNil

C24_NodeSignature ==
    SubnetValidatorReached =>
        LET underlying == Deref(UnderlyingSubnetTx.tx)
        IN  IF ~chain.caminoConfig.VerifyNodeSignature
            THEN built.err = ErrNil /\ built.tx = Ptr(underlying)
            ELSE IF built.args.nodeID \notin built.args.keys
            THEN built.err = errKeyMissing /\ built.tx = Nil
            ELSE /\ built.err = ErrNil
                 /\ built.tx # Nil
                 /\ Deref(built.tx).Ins = underlying.Ins
                 /\ Deref(built.tx).Outs = underlying.Outs
                 /\ Deref(built.tx).Creds = underlying.Creds \o <<<<built.args.nodeID>>>>

\* Verification on and the node key among the keys: the node credential
\* stands after the credential of the one input.
C24_Witness ==
    /\ SubnetValidatorReached
    /\ chain.caminoConfig.VerifyNodeSignature
    /\ built.args.nodeID = "A"
    /\ built.args.keys = {"A", "B"}
    /\ Produced
    /\ Len(Deref(built.tx).Ins) = 1
    /\ Deref(built.tx).Creds = <<<<"A">>, <<"A">>>>

\* ---------------------------------------------------------------------------
\* C25  Register-node credentials: a tx produced by NewRegisterNodeTx has,
\* after the credentials of its inputs, exactly two credentials: first the
\* node credential (made by the key of new_node_id's address, empty when
\* new_node_id is empty), then the consortium member's credential, whose k-th
\* signer is the owner address at position ConsortiumMemberAuth.SigIndices[k];
\* once the fee is planned, a non-empty new_node_id without its key among the
\* keys gives KeyMissing and no tx.
RegisterNodeFeePlanned ==
    /\ Called("NewRegisterNodeTx")
    /\ Lock(chain.utxos, built.args.keys, 0, TxFee, StateUnlocked, ChangeAddr).err = ErrNil

C25_RegisterNodeCredentials ==
    /\ (Called("NewRegisterNodeTx") /\ Produced) =>
          LET tx == Deref(built.tx)
              n == Len(tx.Ins)
              owners == MultisigOwners(built.args.consortiumMemberAddress)
              sigIndices == tx.ConsortiumMemberAuth.SigIndices
          IN  /\ Len(tx.Creds) = n + 2
              /\ \A i \in 1 .. n : tx.Creds[i] = InputCredential(built.method, tx.Ins[i])
              /\ tx.Creds[n + 1] = IF built.args.newNodeID = EmptyNodeID THEN <<>>
                                   ELSE <<built.args.newNodeID>>
              /\ Len(sigIndices) = owners.Threshold
              /\ Len(tx.Creds[n + 2]) = Len(sigIndices)
              /\ \A k \in 1 .. Len(sigIndices) :
                    /\ sigIndices[k] + 1 \in 1 .. Len(owners.Addrs)
                    /\ tx.Creds[n + 2][k] = owners.Addrs[sigIndices[k] + 1]
    /\ (RegisterNodeFeePlanned /\ built.args.newNodeID # EmptyNodeID
        /\ built.args.newNodeID \notin built.args.keys)
          => built.tx = Nil /\ built.err = errKeyMissing

\* A node registered by the key of A for the alias M of A and B: the input
\* credential, the node credential of A, the credential of both owners.
C25_Witness ==
    /\ Called("NewRegisterNodeTx")
    /\ Produced
    /\ built.args.newNodeID = "A"
    /\ built.args.consortiumMemberAddress = MsigAlias
    /\ Deref(built.tx).ConsortiumMemberAuth.SigIndices = <<0, 1>>
    /\ Deref(built.tx).Creds = <<<<"A">>, <<"A">>, <<"A", "B">>>>

\* ---------------------------------------------------------------------------
\* C26  Validator transactions and lock mode: with LockModeBondDeposit on,
\* NewAddValidatorTx calls the planner's Lock once, and its tx bonds the stake
\* amount and burns the add-validator fee; NewRewardValidatorTx calls Unlock,
\* and its tx consumes the bonded UTXOs of the given tx id and no other and
\* produces them unlocked.  With lock mode off neither calls Lock or Unlock:
\* each returns what the underlying builder returns.
CountCalls(name) == Cardinality({i \in DOMAIN built.calls : built.calls[i] = name})

ConfigRead == CalledAny /\ built.args.fault # "CaminoConfig"

BondedBy(txID) == {u \in chain.utxos : u.lockState = StateBonded /\ u.lockTxID = txID}

NoError == <<>>
Raise(kind) == <<kind>>
AsError(e) == IF e = ErrNil THEN NoError ELSE Raise(e)
WrapError(err) == <<"wrapError">> \o err
WrapSentinel(sentinel, err) == <<"wrapError", sentinel>>
ErrorsIs(err, kind) == \E i \in DOMAIN err : err[i] = kind

errNoKeys == "errNoKeys"
errCreateTransferables == "errCreateTransferables"
errParseAddress == "errParseAddress"
errKeystore == "errKeystore"

\* Private keys: the keystore's keys, crypto.FakePrivateKey(addr), and the nil
\* that separates the from keys of a key list from its signer keys.
RealKey(addr) == [addr |-> addr, kind |-> "real"]
FakePrivateKey(addr) == [addr |-> addr, kind |-> "fake"]
NilKey == [addr |-> "", kind |-> "nil"]

\* Addresses in their byte order; the string that parses to no address.
BadAddress == "bad"
AddrRank(addr) ==
    CASE addr = "A" -> 1
      [] addr = "B" -> 2
      [] OTHER -> 3

RECURSIVE AddrList(_)
AddrList(S) ==
    IF S = {} THEN <<>>
    ELSE LET a == CHOOSE x \in S : \A y \in S : AddrRank(x) <= AddrRank(y)
         IN  <<a>> \o AddrList(S \ {a})

\* The addresses of the keystore user
UserAddrs == {"A", "B"}

\* keystore.GetKeychain: the user's keys for the addresses, every key of the
\* user when none is named; an address of no key of the user is an error.
GetKeychain(addrs) ==
    IF addrs = {} THEN Result([i \in 1 .. Len(AddrList(UserAddrs)) |->
                                  RealKey(AddrList(UserAddrs)[i])], NoError)
    ELSE IF ~(addrs \subseteq UserAddrs) THEN Result(<<>>, Raise(errKeystore))
    ELSE Result([i \in 1 .. Len(AddrList(addrs)) |-> RealKey(AddrList(addrs)[i])], NoError)

getFakeKeys(from, signer) ==
    LET fromKeys == [i \in 1 .. Len(AddrList(from)) |-> FakePrivateKey(AddrList(from)[i])]
        signerKeys == [i \in 1 .. Len(AddrList(signer)) |->
                          FakePrivateKey(AddrList(signer)[i])]
    IN  IF signer # {} THEN Result(fromKeys \o <<NilKey>> \o signerKeys, NoError)
        ELSE Result(fromKeys, NoError)

getKeystoreKeys(from, signer) ==
    IF signer # {}
    THEN IF from = {} THEN Result(<<>>, Raise(errNoKeys))
         ELSE LET keys == getFakeKeys(from, {})
                  keyChain == GetKeychain(signer)
              IN  IF keyChain.err # NoError THEN Result(<<>>, WrapError(keyChain.err))
                  ELSE IF Len(keyChain.val) = 0 THEN Result(<<>>, Raise(errNoKeys))
                  ELSE Result(keys.val \o <<NilKey>> \o keyChain.val, NoError)
    ELSE LET keyChain == GetKeychain(from)
         IN  IF keyChain.err # NoError THEN Result(<<>>, WrapError(keyChain.err))
             ELSE IF Len(keyChain.val) = 0 THEN Result(<<>>, Raise(errNoKeys))
             ELSE Result(keyChain.val, NoError)

\* platformapi.Owner, the owner of a request
ApiOwner(locktime, threshold, addresses) ==
    [Locktime |-> locktime, Threshold |-> threshold, Addresses |-> addresses]
NoApiOwner == ApiOwner(0, 0, <<>>)

\* secp256k1fx.OutputOwners.Sort
SortAddrs(addrs) == SortBy(addrs, [i \in 1 .. Len(addrs) |-> AddrRank(addrs[i])])

getOutputOwner(args) ==
    IF Len(args.Addresses) > 0
    THEN IF \E i \in DOMAIN args.Addresses : args.Addresses[i] = BadAddress
         THEN Result(Nil, WrapError(Raise(errParseAddress)))
         ELSE Result(Ptr(OutputOwners(args.Locktime, args.Threshold,
                                      SortAddrs(args.Addresses))), NoError)
    ELSE Result(Nil, NoError)

\* The addresses of the keys of a key list, as the planner and the builder
\* take them.
KeyAddrs(privKeys) == {privKeys[i].addr : i \in {j \in DOMAIN privKeys : privKeys[j] # NilKey}}

\* txs.GetOwnerID: the id under which the state keeps the owner's claimable
GetOwnerID(owner) ==
    IF \E id \in DOMAIN StoredClaimables : StoredClaimables[id].Owner = owner
    THEN CHOOSE id \in DOMAIN StoredClaimables : StoredClaimables[id].Owner = owner
    ELSE "oNone"

\* What a handler call leaves: the error it returns, the tx it made, whether
\* the tx went to AddUnverifiedTx, the key list and the owners it worked
\* with, and the error the planner or the builder returned to it.
Handled(err, tx, submitted, privKeys, owners, raised) ==
    [err |-> err, tx |-> tx, submitted |-> submitted, privKeys |-> privKeys,
     owners |-> owners, raised |-> raised]

ServiceSpend(c, args) ==
    LET privKeys == getFakeKeys(args.From, args.Signer)
        to == getOutputOwner(args.To)
        change == getOutputOwner(args.Change)
        planned == Lock(c.utxos, KeyAddrs(privKeys.val), args.AmountToLock, args.AmountToBurn,
                        args.LockMode, ChangeAddr)
    IN  IF privKeys.err # NoError THEN Handled(privKeys.err, Nil, FALSE, <<>>, <<>>, ErrNil)
        ELSE IF Len(privKeys.val) = 0
        THEN Handled(Raise(errNoKeys), Nil, FALSE, privKeys.val, <<>>, ErrNil)
        ELSE IF to.err # NoError THEN Handled(to.err, Nil, FALSE, privKeys.val, <<>>, ErrNil)
        ELSE IF change.err # NoError
        THEN Handled(change.err, Nil, FALSE, privKeys.val, <<to.val>>, ErrNil)
        ELSE IF planned.err # ErrNil
        THEN Handled(WrapSentinel(errCreateTransferables, AsError(planned.err)), Nil, FALSE,
                     privKeys.val, <<to.val, change.val>>, planned.err)
        ELSE Handled(NoError, Nil, FALSE, privKeys.val, <<to.val, change.val>>, ErrNil)

\* The common course of the handlers that issue a tx: keys from the keystore,
\* the change owner, the builder's tx, AddUnverifiedTx.
\* tx.ID(): the hash of the signed tx
TxID(tx) == [hashOf |-> tx]

\* What was handled, with the TxID left in the response and the txs passed
\* to AddUnverifiedTx, call by call.
Responded(handled, txID, addCalls) == handled @@ [TxID |-> txID, addCalls |-> addCalls]

\* Variant: the tx is built and handed over without a look at the error of
\* the owner parsing.
Issue_OwnersUnchecked(privKeys, owners, ownersErr, builderReturn, addErr) ==
    IF privKeys.err # NoError
    THEN Responded(Handled(privKeys.err, Nil, FALSE, <<>>, <<>>, ErrNil), IDEmpty, <<>>)
    ELSE IF builderReturn.err # ErrNil
    THEN Responded(Handled(WrapError(AsError(builderReturn.err)), Nil, FALSE, privKeys.val,
                           owners, builderReturn.err),
                   IDEmpty, <<>>)
    ELSE Responded(Handled(addErr, builderReturn.tx, TRUE, privKeys.val, owners, ErrNil),
                   TxID(Deref(builderReturn.tx)), <<builderReturn.tx>>)

\* addErr is what the handler returns once AddUnverifiedTx has returned.
Issue(privKeys, owners, ownersErr, builderReturn, addErr) ==
    IF privKeys.err # NoError
    THEN Responded(Handled(privKeys.err, Nil, FALSE, <<>>, <<>>, ErrNil), IDEmpty, <<>>)
    ELSE IF ownersErr # NoError
    THEN Responded(Handled(ownersErr, Nil, FALSE, privKeys.val, owners, ErrNil), IDEmpty, <<>>)
    ELSE IF builderReturn.err # ErrNil
    THEN Responded(Handled(WrapError(AsError(builderReturn.err)), Nil, FALSE, privKeys.val,
                           owners, builderReturn.err),
                   IDEmpty, <<>>)
    ELSE Responded(Handled(addErr, builderReturn.tx, TRUE, privKeys.val, owners, ErrNil),
                   TxID(Deref(builderReturn.tx)), <<builderReturn.tx>>)

SetAddressState(c, args) ==
    LET privKeys == getKeystoreKeys(args.From, args.Signer)
        change == getOutputOwner(args.Change)
    IN  Issue(privKeys, IF change.err = NoError THEN <<change.val>> ELSE <<>>, change.err,
              NewAddressStateTx(c, KeyAddrs(privKeys.val), ChangeAddr, args.Fault),
              args.AddUnverifiedTx)

RegisterNode(c, args) ==
    LET privKeys == getKeystoreKeys(args.From, args.Signer)
        change == getOutputOwner(args.Change)
    IN  Issue(privKeys, IF change.err = NoError THEN <<change.val>> ELSE <<>>, change.err,
              NewRegisterNodeTx(c, args.NewNodeID, args.ConsortiumMemberAddress,
                                KeyAddrs(privKeys.val), ChangeAddr, args.Fault),
              args.AddUnverifiedTx)

Claim(c, args) ==
    LET privKeys == getKeystoreKeys(args.From, args.Signer)
        change == getOutputOwner(args.Change)
        claimTo == getOutputOwner(args.ClaimTo)
        claimableOwners == [i \in DOMAIN args.ClaimableOwners |->
                               getOutputOwner(args.ClaimableOwners[i])]
        failed == {i \in DOMAIN claimableOwners : claimableOwners[i].err # NoError}
        ownersErr == IF change.err # NoError THEN change.err
                     ELSE IF claimTo.err # NoError THEN claimTo.err
                     ELSE IF failed # {}
                     THEN WrapError(claimableOwners[CHOOSE i \in failed :
                                                       \A j \in failed : i <= j].err)
                     ELSE NoError
        owners == IF ownersErr # NoError THEN <<>>
                  ELSE <<change.val, claimTo.val>>
                       \o [i \in DOMAIN claimableOwners |-> claimableOwners[i].val]
        claimableOwnerIDs == [i \in DOMAIN claimableOwners |->
                                 IF claimableOwners[i].val = Nil THEN "oNone"
                                 ELSE GetOwnerID(Deref(claimableOwners[i].val))]
    IN  Issue(privKeys, owners, ownersErr,
              NewClaimTx(c, args.DepositTxIDs, claimableOwnerIDs, KeyAddrs(privKeys.val),
                         ChangeAddr, args.Fault),
              IF args.AddUnverifiedTx = NoError THEN NoError
              ELSE WrapError(args.AddUnverifiedTx))

(***************************************************************************)
(* The service as a state machine: one request is handled over some chain  *)
(* state; the handlers only read the state, the tx they issue goes to the   *)
(* mempool.                                                                 *)
(***************************************************************************)
FromAddrs == {{}, {"A"}, {MsigAlias}, {"A", "B"}}
SignerAddrs == {{}, {"A"}, {"A", "B"}}
ApiOwners ==
    { NoApiOwner,
      ApiOwner(0, 1, <<"A">>),
      ApiOwner(0, 1, <<"B", "A">>),
      ApiOwner(0, 2, <<"A">>),
      ApiOwner(0, 1, <<BadAddress>>) }

ServiceChains == {c \in Chains : c.sharedMemory = <<>> /\ c.depositExpired}

InitService ==
    /\ base = InitBase
    /\ diffs = <<>>
    /\ processing = {}
    /\ lastAccepted = GenesisID
    /\ applied = NoDiff
    /\ applyCount = 0
    /\ written = <<>>
    /\ nops = 0
    /\ published = {}
    /\ applyCall = NoApplyCall
    /\ observed = InitBase
    /\ committed = {InitBase}
    /\ chain \in ServiceChains
    /\ built = NoBuild
    /\ reply = NoReply
    /\ mempool = {}
    /\ info = NoInfo

\* What Builder.AddUnverifiedTx may return
errMempool == "errMempool"
AddUnverifiedTxReturns == {NoError, Raise(errMempool)}

\* The collaborator of the builder that fails during the request, if any
HandlerFaults == {"none", "SyntacticVerify"}

HandlerCall(handler, args, ret) ==
    /\ reply' = [handler |-> handler, args |-> args, err |-> ret.err, tx |-> ret.tx,
                 submitted |-> ret.submitted, privKeys |-> ret.privKeys,
                 owners |-> ret.owners, raised |-> ret.raised,
                 TxID |-> ret.TxID, addCalls |-> ret.addCalls]
    /\ mempool' = mempool \cup {Deref(ret.addCalls[i]) : i \in DOMAIN ret.addCalls}
    /\ UNCHANGED <<base, diffs, processing, lastAccepted, applied, applyCount, written, nops,
                   published, applyVars, builderVars, info>>

CallSpend ==
    /\ reply = NoReply
    /\ \E from \in FromAddrs, signer \in SignerAddrs, to \in {NoApiOwner, ApiOwner(0, 2, <<"A">>)},
          change \in ApiOwners, amountToLock \in {0, 2000}, lockMode \in {StateDeposited, StateBonded} :
           LET args == [From |-> from, Signer |-> signer, To |-> to, Change |-> change,
                        AmountToLock |-> amountToLock, AmountToBurn |-> TxFee,
                        LockMode |-> lockMode]
           IN  HandlerCall("Spend", args, Responded(ServiceSpend(chain, args), IDEmpty, <<>>))

CallSetAddressState ==
    /\ reply = NoReply
    /\ \E from \in FromAddrs, signer \in SignerAddrs, change \in ApiOwners,
          addUnverifiedTx \in AddUnverifiedTxReturns, fault \in HandlerFaults :
           LET args == [From |-> from, Signer |-> signer, Change |-> change,
                        AddUnverifiedTx |-> addUnverifiedTx, Fault |-> fault]
           IN  HandlerCall("SetAddressState", args, SetAddressState(chain, args))

CallRegisterNode ==
    /\ reply = NoReply
    /\ \E from \in FromAddrs, signer \in SignerAddrs, change \in ApiOwners,
          newNodeID \in {"A", EmptyNodeID}, consortiumMemberAddress \in {"A", MsigAlias},
          addUnverifiedTx \in AddUnverifiedTxReturns, fault \in HandlerFaults :
           LET args == [From |-> from, Signer |-> signer, Change |-> change,
                        AddUnverifiedTx |-> addUnverifiedTx, Fault |-> fault,
                        NewNodeID |-> newNodeID,
                        ConsortiumMemberAddress |-> consortiumMemberAddress]
           IN  HandlerCall("RegisterNode", args, RegisterNode(chain, args))

CallClaim ==
    /\ reply = NoReply
    /\ \E from \in FromAddrs, signer \in SignerAddrs, change \in ApiOwners,
          claimTo \in {NoApiOwner, ApiOwner(0, 1, <<"B", "A">>)},
          depositTxIDs \in {<<>>, <<"d1">>, <<"d3">>},
          claimableOwners \in {<<>>, <<ApiOwner(0, 1, <<"A">>)>>,
                               <<ApiOwner(0, 3, <<"B", "A">>)>>},
          addUnverifiedTx \in AddUnverifiedTxReturns, fault \in HandlerFaults :
           LET args == [From |-> from, Signer |-> signer, Change |-> change,
                        AddUnverifiedTx |-> addUnverifiedTx, Fault |-> fault,
                        ClaimTo |-> claimTo, DepositTxIDs |-> depositTxIDs,
                        ClaimableOwners |-> claimableOwners]
           IN  HandlerCall("Claim", args, Claim(chain, args))

NextService ==
    \/ CallSpend
    \/ CallSetAddressState
    \/ CallRegisterNode
    \/ CallClaim

SpecService == InitService /\ [][NextService]_vars

\* ---------------------------------------------------------------------------
\* C27  Fake keys are never published: no handler hands a tx to
\* AddUnverifiedTx that was built from a key list holding a FakePrivateKey;
\* Spend hands over nothing, and SetAddressState, RegisterNode and Claim hand
\* over only txs built from keys of the keystore, requests naming separate
\* signer addresses included.
Handling(handler) == reply.handler = handler
HandledAny == reply # NoReply
Submitted == HandledAny /\ reply.submitted
HoldsFakeKey(privKeys) == \E i \in DOMAIN privKeys : privKeys[i].kind = "fake"

C27_FakeKeysNeverPublished ==
    /\ Handling("Spend") => mempool = {}
    /\ Submitted => ~HoldsFakeKey(reply.privKeys)

\* ---------------------------------------------------------------------------
\* C28  Errors keep their kind: when the planner or the builder returns an
\* error of the taxonomy to a handler (Spend, SetAddressState, RegisterNode,
\* Claim), the error the handler returns is that error or wraps it so that
\* its kind is still found in the error chain.
PlannerFailed == HandledAny /\ reply.raised # ErrNil

C28_ErrorsKeepKind ==
    PlannerFailed => ErrorsIs(reply.err, reply.raised)

(***************************************************************************)
(* Deposit offers as the service and the diffs answer for them.            *)
(***************************************************************************)
\* deposit.OfferFlagLocked, a bit of Offer.Flags; flags & flag for one bit
OfferFlagLocked == 1
FlagsAnd(flags, flag) == ((flags \div flag) % 2) * flag
ServiceFlagValues == 0 .. 3

\* The deposit offers the accepted state may hold
BaseOfferMaps ==
    UNION {[ids -> ServiceFlagValues] : ids \in SUBSET OfferIDs}

\* GetAllDepositOffers keeping the offers without any flag
ServiceGetAllDepositOffers_NoFlags(depositOffers, active) ==
    IF active
    THEN SelectSeq(depositOffers, LAMBDA offer : offer.Flags = 0)
    ELSE depositOffers

\* CaminoService.GetAllDepositOffers over what state.GetAllDepositOffers
\* returned
ServiceGetAllDepositOffers(depositOffers, active) ==
    IF active
    THEN SelectSeq(depositOffers, LAMBDA offer : FlagsAnd(offer.Flags, OfferFlagLocked) = 0)
    ELSE depositOffers

InitOffers ==
    /\ \E flagsOf \in BaseOfferMaps :
          base = [InitBase EXCEPT !.depositOffers =
                     [id \in DOMAIN flagsOf |-> [ID |-> id, Flags |-> flagsOf[id]]]]
    /\ diffs = <<>>
    /\ processing = {}
    /\ lastAccepted = GenesisID
    /\ applied = NoDiff
    /\ applyCount = 0
    /\ written = <<>>
    /\ nops = 0
    /\ published = {}
    /\ applyCall = NoApplyCall
    /\ observed = InitBase
    /\ committed = {InitBase}
    /\ chain = NoChain
    /\ built = NoBuild
    /\ reply = NoReply
    /\ mempool = {}
    /\ info = NoInfo

\* A read leaves everything but the reply alone
OffersRead(handler, args, val, err) ==
    /\ reply' = [handler |-> handler, args |-> args, val |-> val, err |-> err]
    /\ UNCHANGED <<base, diffs, processing, lastAccepted, applied, applyCount, written, nops,
                   published, applyVars, builderVars, mempool, info>>

CallGetAllDepositOffers ==
    /\ reply = NoReply
    /\ \E active \in BOOLEAN :
           LET all == GetAllDepositOffers(BaseState)
           IN  IF all.err # ErrNil
               THEN OffersRead("GetAllDepositOffers", [Active |-> active], <<>>, all.err)
               ELSE \E depositOffers \in all.offers :
                        OffersRead("GetAllDepositOffers", [Active |-> active],
                                   ServiceGetAllDepositOffers(depositOffers, active), ErrNil)

CallGetDepositOffer ==
    /\ reply = NoReply
    /\ \E s \in {BaseState} \cup DOMAIN diffs, offerID \in OfferIDs :
           LET offer == GetDepositOffer(s, offerID)
           IN  OffersRead("GetDepositOffer", [state |-> s, offerID |-> offerID],
                          offer.val, offer.err)

\* The state is built up before the one read of a behaviour
NextOffers ==
    \/ reply = NoReply /\ NewCaminoDiff
    \/ reply = NoReply /\ CallSetDepositOffer
    \/ CallGetAllDepositOffers
    \/ CallGetDepositOffer

SpecOffers == InitOffers /\ [][NextOffers]_vars

\* ---------------------------------------------------------------------------
\* C29  Locked offers: GetAllDepositOffers with active = true returns exactly
\* the offers of the state whose Locked flag is clear, each once, and with
\* active = false all offers; an offer whose Locked flag is set is still
\* returned by GetDepositOffer(id), from the accepted state and from a diff
\* that set it or that stands on the accepted state without touching it.
Locked(offer) == offer.Flags % 2 = 1
StateOffers == {base.depositOffers[id] : id \in DOMAIN base.depositOffers}
Replied == {reply.val[i] : i \in DOMAIN reply.val}

C29_LockedOffers ==
    /\ (reply.handler = "GetAllDepositOffers" /\ reply.err = ErrNil) =>
          /\ Len(reply.val) = Cardinality(Replied)
          /\ Replied = IF reply.args.Active THEN {offer \in StateOffers : ~Locked(offer)}
                       ELSE StateOffers
    /\ reply.handler = "GetDepositOffer" =>
          LET s == reply.args.state
              id == reply.args.offerID
          IN  /\ (s = BaseState /\ id \in DOMAIN base.depositOffers
                  /\ Locked(base.depositOffers[id]))
                    => reply.err = ErrNil /\ reply.val = Ptr(base.depositOffers[id])
              /\ (s # BaseState /\ id \in WrittenKeys(s, "modifiedDepositOffers")
                  /\ Locked(Deref(written[s]["modifiedDepositOffers"][id].arg)))
                    => /\ reply.err = ErrNil
                       /\ reply.val = written[s]["modifiedDepositOffers"][id].arg
              /\ (s # BaseState /\ id \notin WrittenKeys(s, "modifiedDepositOffers")
                  /\ ParentOf(s) = BaseState /\ id \in DOMAIN base.depositOffers
                  /\ Locked(base.depositOffers[id]))
                    => reply.err = ErrNil /\ reply.val = Ptr(base.depositOffers[id])

\* The state holds a locked offer and an offer with another flag only;
\* the active query returned the second alone.
C29_Witness ==
    /\ reply.handler = "GetAllDepositOffers"
    /\ reply.args.Active
    /\ \E offer \in StateOffers : Locked(offer)
    /\ reply.val = <<[ID |-> "o2", Flags |-> 2]>>

\* ---------------------------------------------------------------------------
\* C30  Owner well-formedness: every OutputOwners value getOutputOwner returns
\* for an owner of a request (change, to, claimTo, claimable owners) has its
\* addresses in ascending order and a threshold of at most the number of its
\* addresses.
AddrsSorted(owner) ==
    \A i, j \in DOMAIN owner.Addrs : i < j => AddrRank(owner.Addrs[i]) <= AddrRank(owner.Addrs[j])
ThresholdMet(owner) == owner.Threshold <= Len(owner.Addrs)
ReturnedOwners == {Deref(reply.owners[i]) : i \in {j \in DOMAIN reply.owners : reply.owners[j] # Nil}}

C30_OwnersWellFormed ==
    (HandledAny /\ reply.handler \in {"Spend", "SetAddressState", "RegisterNode", "Claim"}) =>
        \A owner \in ReturnedOwners : AddrsSorted(owner) /\ ThresholdMet(owner)

(***************************************************************************)
(* The info service (api/info): the Info object with its GenesisBytes and  *)
(* its logger, and the GetGenesisBytes handler called on it.               *)
(***************************************************************************)

\* The values of the bytes and the longest GenesisBytes of the model
ByteValues == {0, 1, 127, 255}
MaxGenesisLen == 3
GenesisBytesValues == UNION {[1 .. n -> ByteValues] : n \in 0 .. MaxGenesisLen}

\* Info{log: mockLog} with service.GenesisBytes set
Info(genesisBytes) == [GenesisBytes |-> genesisBytes, debugCalls |-> 0]
GetGenesisBytesReply(genesisBytes) == [GenesisBytes |-> genesisBytes]

GetGenesisBytes_Empty(service) ==
    [service |-> [service EXCEPT !.debugCalls = @ + 1],
     reply |-> GetGenesisBytesReply(<<>>),
     err |-> NoError]

\* service.GetGenesisBytes(nil, nil, &reply): one Debug line, the bytes
\* copied into the reply, nil returned
GetGenesisBytes(service) ==
    [service |-> [service EXCEPT !.debugCalls = @ + 1],
     reply |-> GetGenesisBytesReply(service.GenesisBytes),
     err |-> NoError]

InitInfo ==
    /\ base = InitBase
    /\ diffs = <<>>
    /\ processing = {}
    /\ lastAccepted = GenesisID
    /\ applied = NoDiff
    /\ applyCount = 0
    /\ written = <<>>
    /\ nops = 0
    /\ published = {}
    /\ applyCall = NoApplyCall
    /\ observed = InitBase
    /\ committed = {InitBase}
    /\ chain = NoChain
    /\ built = NoBuild
    /\ reply = NoReply
    /\ mempool = {}
    /\ \E genesisBytes \in GenesisBytesValues : info = Info(genesisBytes)

CallGetGenesisBytes ==
    /\ reply = NoReply
    /\ LET ret == GetGenesisBytes(info)
       IN  /\ reply' = [handler |-> "GetGenesisBytes", before |-> info,
                        val |-> ret.reply, err |-> ret.err]
           /\ info' = ret.service
    /\ UNCHANGED <<base, diffs, processing, lastAccepted, applied, applyCount, written, nops,
                   published, applyVars, builderVars, mempool>>

NextInfo == CallGetGenesisBytes

SpecInfo == InitInfo /\ [][NextInfo]_vars

AwaitingApply == {d \in processing \ published : diffs[d].parentID = lastAccepted}
BaseCallFor(d, depositTxID) ==
    IF depositTxID \in DOMAIN diffs[d].caminoDiff.modifiedDeposits
    THEN ApplyDepositCase(diffs[d].caminoDiff.modifiedDeposits[depositTxID])
    ELSE "none"
BaseHolds(depositTxID) == depositTxID \in DOMAIN base.deposits

C32_DepositVariantMatchesBase ==
    (LockFree /\ NoAcceptInProgress) =>
        \A d \in AwaitingApply : \A depositTxID \in DepositTxIDs :
            /\ BaseCallFor(d, depositTxID) = "AddDeposit"
                 <=> (~BaseHolds(depositTxID) /\ GetDeposit(d, depositTxID).err = ErrNil)
            /\ BaseCallFor(d, depositTxID) = "ModifyDeposit" => BaseHolds(depositTxID)
            /\ BaseCallFor(d, depositTxID) = "RemoveDeposit" => BaseHolds(depositTxID)

\* ---------------------------------------------------------------------------
\* C33  Visible deposits are scheduled: every deposit the diff's GetDeposit
\* returns and the caller did not exclude is taken into account by
\* GetNextToUnlockDepositIDsAndTime: the call succeeds with a time that is
\* not after the deposit's end time, and the deposit's id is in the returned
\* list when it ends at the returned time.
Scheduled(d, depositTxID, next) ==
    /\ next.err = ErrNil
    /\ next.time <= EndTimeIn(d, depositTxID)
    /\ EndTimeIn(d, depositTxID) = next.time => depositTxID \in Elements(next.ids)

C33_VisibleDepositsScheduled ==
    \A d \in processing, excluded \in SUBSET DepositTxIDs :
        (NoAcceptInProgress /\ ChainResolves(d)) =>
            \A depositTxID \in EffectiveDeposits(d, excluded) :
                Scheduled(d, depositTxID, GetNextToUnlockDepositIDsAndTime(d, excluded))

\* ---------------------------------------------------------------------------
\* C34  The two next-to-unlock queries agree: on every diff and for every
\* excluded set GetNextToUnlockDepositTime returns the time and the error
\* GetNextToUnlockDepositIDsAndTime returns for an equal set, the error
\* being nil, NotFound next to MaxTime, or the missing parent's.
C34_NextToUnlockQueriesAgree ==
    \A d \in DOMAIN diffs, excluded \in SUBSET DepositTxIDs :
        LET timeOnly == GetNextToUnlockDepositTime(d, excluded)
            withIDs == GetNextToUnlockDepositIDsAndTime(d, excluded)
        IN  /\ timeOnly.time = withIDs.time
            /\ timeOnly.err = withIDs.err
            /\ timeOnly.err \in {ErrNil, ErrNotFound, ErrMissingParentState}
            /\ timeOnly.err = ErrNotFound => timeOnly.time = MaxTime
            /\ timeOnly.err = ErrNil => timeOnly.time # MaxTime

\* A diff that added a deposit ending before the base's: both queries give
\* its end time, the base's once it is excluded, and NotFound once all are.
C34_Witness ==
    \E d \in processing, depositTxID \in DepositTxIDs :
        /\ diffs[d].parentID = lastAccepted
        /\ depositTxID \in DOMAIN diffs[d].caminoDiff.modifiedDeposits
        /\ diffs[d].caminoDiff.modifiedDeposits[depositTxID].added
        /\ GetNextToUnlockDepositIDsAndTime(d, {}).ids = <<depositTxID>>
        /\ GetNextToUnlockDepositTime(d, {}).time = EndTimeIn(d, depositTxID)
        /\ GetNextToUnlockDepositTime(d, {depositTxID}).err = ErrNil
        /\ GetNextToUnlockDepositTime(d, {depositTxID}).time > EndTimeIn(d, depositTxID)
        /\ GetNextToUnlockDepositTime(d, DepositTxIDs).err = ErrNotFound

(***************************************************************************)
(* The next-to-unlock queries called on a diff: deposits are written on    *)
(* diffs, diffs are applied and accepted, and one query is made with a set *)
(* of the caller's.  The reply holds the diffs as they were at the call,   *)
(* the caller's set before it and after it.                                *)
(***************************************************************************)
NextToUnlockRead(handler, s, removedDepositIDs, ret) ==
    /\ reply' = [handler |-> handler, state |-> s, diffs |-> diffs,
                 removedDepositIDs |-> removedDepositIDs, removed |-> ret.removed,
                 time |-> ret.time, err |-> ret.err]
    /\ UNCHANGED <<base, diffs, processing, lastAccepted, applied, applyCount, written, nops,
                   published, applyVars, builderVars, mempool, info>>

CallGetNextToUnlockDepositTime ==
    /\ reply = NoReply
    /\ \E s \in DOMAIN diffs, removedDepositIDs \in SUBSET DepositTxIDs :
           NextToUnlockRead("GetNextToUnlockDepositTime", s, removedDepositIDs,
                            GetNextToUnlockDepositTime(s, removedDepositIDs))

CallGetNextToUnlockDepositIDsAndTime ==
    /\ reply = NoReply
    /\ \E s \in DOMAIN diffs, removedDepositIDs \in SUBSET DepositTxIDs :
           NextToUnlockRead("GetNextToUnlockDepositIDsAndTime", s, removedDepositIDs,
                            GetNextToUnlockDepositIDsAndTime(s, removedDepositIDs))

NextUnlock ==
    \/ reply = NoReply /\ NewCaminoDiff
    \/ reply = NoReply /\ CallAddDeposit
    \/ reply = NoReply /\ CallModifyDeposit
    \/ reply = NoReply /\ CallRemoveDeposit
    \/ reply = NoReply /\ Apply
    \/ reply = NoReply /\ Accept
    \/ CallGetNextToUnlockDepositTime
    \/ CallGetNextToUnlockDepositIDsAndTime

SpecUnlock == Init /\ [][NextUnlock]_vars

\* ---------------------------------------------------------------------------
\* C35  Next-to-unlock side effects: GetNextToUnlockDepositTime and
\* GetNextToUnlockDepositIDsAndTime leave the modifications of every diff as
\* they were, and the caller's set holds afterwards what it held before and
\* the ids of the deposits marked removed in the diff and in the diffs above
\* it, and nothing else; no id leaves the set.
RECURSIVE RemovedInChain(_)
RemovedInChain(s) ==
    IF s \in {BaseState, MissingState} THEN {}
    ELSE {id \in DOMAIN diffs[s].caminoDiff.modifiedDeposits :
              diffs[s].caminoDiff.modifiedDeposits[id].removed}
         \cup RemovedInChain(GetState(diffs[s].parentID))
NextToUnlockAsked ==
    reply.handler \in {"GetNextToUnlockDepositTime", "GetNextToUnlockDepositIDsAndTime"}

C35_NextToUnlockSideEffects ==
    NextToUnlockAsked =>
        /\ diffs = reply.diffs
        /\ reply.removedDepositIDs \subseteq reply.removed
        /\ reply.removed \subseteq reply.removedDepositIDs \cup RemovedInChain(reply.state)
        /\ ChainResolves(reply.state) =>
               reply.removed = reply.removedDepositIDs \cup RemovedInChain(reply.state)

\* A diff on a diff that removed a deposit of the base, asked with a set
\* holding another id: the set comes back with both.
C35_Witness ==
    /\ reply.handler = "GetNextToUnlockDepositIDsAndTime"
    /\ GetState(diffs[reply.state].parentID) \in DOMAIN diffs
    /\ reply.removedDepositIDs = {2}
    /\ reply.removed = {1, 2}
    /\ reply.err = ErrNotFound

\* ---------------------------------------------------------------------------
\* C36  LockedUTXOs result is well-formed: every UTXO of every list
\* LockedUTXOs(txIDs, addrs, lockState) may return on a diff is a locked
\* output whose lock ids match lockState for one of txIDs (so a UTXO the
\* diff re-wrote with another lock state does not stand in for the
\* parent's), no UTXO the diff deleted is in the list, and no UTXO id is in
\* it twice.
Tombstoned(d) == {id \in DOMAIN diffs[d].modifiedUTXOs : diffs[d].modifiedUTXOs[id].utxo = Nil}
WellFormedUTXOList(d, utxos, txIDs, lockState) ==
    /\ \A i \in DOMAIN utxos :
          /\ utxos[i].out.locked
          /\ Match(utxos[i].out.IDs, lockState, txIDs)
          /\ utxos[i].id \notin Tombstoned(d)
    /\ \A i, j \in DOMAIN utxos : utxos[i].id = utxos[j].id => i = j

C36_LockedUTXOsWellFormed ==
    \A d \in processing, txIDs \in SUBSET LockTxIDs, addresses \in SUBSET ShortIDs,
       lockState \in LockStates :
        \A utxos \in LockedUTXOs(d, txIDs, addresses, lockState).utxos :
            WellFormedUTXOList(d, utxos, txIDs, lockState)

\* ---------------------------------------------------------------------------
\* C37  NewRewardsImportTx always reports an outcome: whatever the state, the
\* shared memory, the clock and the collaborators do, it returns either a
\* transaction and no error or no transaction and an error, also when the
\* treasury keychain hands back an input that is not a transferable input.
ReportsOutcome(tx, err) ==
    \/ tx # Nil /\ err = ErrNil
    \/ tx = Nil /\ err # ErrNil

C37_RewardsImportReportsOutcome ==
    Called("NewRewardsImportTx") => ReportsOutcome(built.tx, built.err)

\* ---------------------------------------------------------------------------
\* C38  Submit only after a successful build: SetAddressState, RegisterNode
\* and Claim call AddUnverifiedTx at most once per request, and only once the
\* keys were retrieved, every owner of the request was parsed and the builder
\* returned a tx without error; the tx handed over is the builder's and the
\* TxID of the response is its id; a request whose error was raised before
\* that point hands nothing over.
IssuingHandled == reply.handler \in {"SetAddressState", "RegisterNode", "Claim"}
RequestOwners(handler, args) ==
    IF handler = "Claim"
    THEN {args.Change, args.ClaimTo} \cup Elements(args.ClaimableOwners)
    ELSE {args.Change}
RaisedBeforeSubmission ==
    /\ reply.err # NoError
    /\ ~ErrorsIs(reply.err, errMempool)

C38_SubmitOnlyAfterBuild ==
    IssuingHandled =>
        /\ Len(reply.addCalls) <= 1
        /\ reply.addCalls # <<>> =>
              /\ getKeystoreKeys(reply.args.From, reply.args.Signer).err = NoError
              /\ \A owner \in RequestOwners(reply.handler, reply.args) :
                     getOutputOwner(owner).err = NoError
              /\ reply.raised = ErrNil
              /\ reply.tx # Nil
              /\ reply.addCalls = <<reply.tx>>
              /\ reply.TxID = TxID(Deref(reply.addCalls[1]))
              /\ mempool = {Deref(reply.tx)}
        /\ RaisedBeforeSubmission => reply.addCalls = <<>> /\ mempool = {}
        /\ reply.addCalls = <<>> => RaisedBeforeSubmission

\* A claim whose tx was built and handed over, the mempool refusing it: the
\* response holds the tx's id and the handler returns the wrapped error.
C38_Witness ==
    /\ reply.handler = "Claim"
    /\ reply.addCalls = <<reply.tx>>
    /\ reply.tx # Nil
    /\ reply.TxID = TxID(Deref(reply.tx))
    /\ reply.err = WrapError(Raise(errMempool))

(***************************************************************************)
(* CaminoService.GetBalance: the UTXOs of the requested addresses summed   *)
(* per asset and per lock state.                                           *)
(***************************************************************************)
\* utilsjson.Uint64 on a scaled width; SafeAdd stops at the largest value.
BalanceBits == 6
MaxUint64 == 2 ^ BalanceBits - 1
SafeAdd(a, b) == IF a + b > MaxUint64 THEN MaxUint64 ELSE a + b

\* locked.IDs.LockState
LockState(lockIDs) ==
    CASE lockIDs.DepositTxID = IDEmpty /\ lockIDs.BondTxID = IDEmpty -> StateUnlocked
      [] lockIDs.DepositTxID # IDEmpty /\ lockIDs.BondTxID = IDEmpty -> StateDeposited
      [] lockIDs.DepositTxID = IDEmpty /\ lockIDs.BondTxID # IDEmpty -> StateBonded
      [] OTHER -> StateDepositedBonded

\* The outputs a UTXO of the state may hold: a secp256k1fx.TransferOutput, a
\* locked.Out with any lock ids, or an output of another type.
AssetIDs == {"avax", "other"}
BalanceAmounts == {1, 40}
TransferOutput(amount) == [type |-> "secp256k1fx.TransferOutput", amount |-> amount]
LockedOutput(lockIDs, amount) == [type |-> "locked.Out", IDs |-> lockIDs, amount |-> amount]
UnexpectedOutput(amount) == [type |-> "stakeable.LockOut", amount |-> amount]
BalanceOuts ==
    {TransferOutput(amount) : amount \in BalanceAmounts}
    \cup {LockedOutput(lockIDs, amount) : lockIDs \in LockIDs, amount \in BalanceAmounts}
    \cup {UnexpectedOutput(1)}
BalanceUTXOShapes ==
    {[asset |-> "avax", out |-> out, addr |-> addr] : out \in BalanceOuts, addr \in {"A"}}
    \cup {[asset |-> asset, out |-> TransferOutput(1), addr |-> addr] :
              asset \in AssetIDs, addr \in {"A", "B"}}
    \cup {[asset |-> "other", out |-> LockedOutput([DepositTxID |-> "t1", BondTxID |-> IDEmpty], 1),
           addr |-> "A"]}
MaxBalanceUTXOs == 3
BalanceUTXOLists ==
    UNION {{[i \in 1 .. n |-> [id |-> i, asset |-> shapes[i].asset, out |-> shapes[i].out,
                               addr |-> shapes[i].addr]] :
               shapes \in [1 .. n -> BalanceUTXOShapes]} : n \in 0 .. MaxBalanceUTXOs}

\* avax.ParseServiceAddresses and avax.GetAllUTXOs
ParseServiceAddresses(addresses) ==
    IF \E i \in DOMAIN addresses : addresses[i] = BadAddress
    THEN [val |-> {}, err |-> Raise(errParseAddress)]
    ELSE [val |-> Elements(addresses), err |-> NoError]
errGetUTXOs == "errGetUTXOs"
GetAllUTXOs(c, addrs, fault) ==
    IF fault = "GetAllUTXOs" THEN [val |-> <<>>, err |-> Raise(errGetUTXOs)]
    ELSE [val |-> SelectSeq(c.utxos, LAMBDA utxo : utxo.addr \in addrs), err |-> NoError]

\* m[assetID] of a Go map, and m[assetID] = SafeAdd(m[assetID], amount)
AmountOf(m, assetID) == IF assetID \in DOMAIN m THEN m[assetID] ELSE 0
AddAmount(m, assetID, amount) == MapSet(m, assetID, SafeAdd(AmountOf(m, assetID), amount))

GetBalanceResponseV2(balances, unlockedOutputs, bondedOutputs, depositedOutputs, depositedBondedOutputs, utxoIDs) ==
    [Balances |-> balances, UnlockedOutputs |-> unlockedOutputs,
     BondedOutputs |-> bondedOutputs, DepositedOutputs |-> depositedOutputs,
     DepositedBondedOutputs |-> depositedBondedOutputs, UTXOIDs |-> utxoIDs]
NoBalances == GetBalanceResponseV2(<<>>, <<>>, <<>>, <<>>, <<>>, <<>>)

\* The field of the response a counted output adds to; "none" for an output
\* the loop skips.
OutputsField(out) ==
    CASE out.type = "secp256k1fx.TransferOutput" -> "UnlockedOutputs"
      [] out.type = "locked.Out" /\ LockState(out.IDs) = StateBonded -> "BondedOutputs"
      [] out.type = "locked.Out" /\ LockState(out.IDs) = StateDeposited -> "DepositedOutputs"
      [] out.type = "locked.Out" /\ LockState(out.IDs) = StateDepositedBonded ->
             "DepositedBondedOutputs"
      [] OTHER -> "none"

\* Variant: the id of a skipped UTXO is listed all the same.
CountUTXO_ListSkipped(sums, utxo) ==
    IF OutputsField(utxo.out) = "none"
    THEN [sums EXCEPT !.UTXOIDs = Append(@, utxo.id)]
    ELSE [sums EXCEPT ![OutputsField(utxo.out)] = AddAmount(@, utxo.asset, utxo.out.amount),
                      !.Balances = AddAmount(@, utxo.asset, utxo.out.amount),
                      !.UTXOIDs = Append(@, utxo.id)]

\* One pass of the loop utxoFor
CountUTXO(sums, utxo) ==
    IF OutputsField(utxo.out) = "none"
    THEN sums
    ELSE [sums EXCEPT ![OutputsField(utxo.out)] = AddAmount(@, utxo.asset, utxo.out.amount),
                      !.Balances = AddAmount(@, utxo.asset, utxo.out.amount),
                      !.UTXOIDs = Append(@, utxo.id)]

RECURSIVE CountUTXOs(_, _)
CountUTXOs(sums, utxos) ==
    IF utxos = <<>> THEN sums
    ELSE CountUTXOs(CountUTXO(sums, Head(utxos)), Tail(utxos))

GetBalanceResponseWrapper(lockModeBondDeposit, avax, camino) ==
    [LockModeBondDeposit |-> lockModeBondDeposit, avax |-> avax, camino |-> camino]
NoBalanceResponse == GetBalanceResponseWrapper(FALSE, "none", NoBalances)

GetBalance(c, args, fault) ==
    LET caminoConfig == ChainCaminoConfig(c, fault)
        addresses == args.Addresses \o
                     (IF args.Address # Nil THEN <<Deref(args.Address)>> ELSE <<>>)
        addrs == ParseServiceAddresses(addresses)
        utxos == GetAllUTXOs(c, addrs.val, fault)
    IN  IF caminoConfig.err # ErrNil
        THEN [err |-> AsError(caminoConfig.err), response |-> NoBalanceResponse]
        ELSE IF ~Deref(caminoConfig.val).LockModeBondDeposit
        THEN [err |-> NoError,
              response |-> GetBalanceResponseWrapper(FALSE, "Service.GetBalance", NoBalances)]
        ELSE IF addrs.err # NoError
        THEN [err |-> addrs.err,
              response |-> GetBalanceResponseWrapper(TRUE, "none", NoBalances)]
        ELSE IF utxos.err # NoError
        THEN [err |-> WrapError(utxos.err),
              response |-> GetBalanceResponseWrapper(TRUE, "none", NoBalances)]
        ELSE [err |-> NoError,
              response |-> GetBalanceResponseWrapper(TRUE, "none",
                                                     CountUTXOs(NoBalances, utxos.val))]

BalanceChains ==
    {[caminoConfig |-> [VerifyNodeSignature |-> TRUE, LockModeBondDeposit |-> lockMode],
      utxos |-> utxos] :
        lockMode \in BOOLEAN, utxos \in BalanceUTXOLists}

InitBalance ==
    /\ base = InitBase
    /\ diffs = <<>>
    /\ processing = {}
    /\ lastAccepted = GenesisID
    /\ applied = NoDiff
    /\ applyCount = 0
    /\ written = <<>>
    /\ nops = 0
    /\ published = {}
    /\ applyCall = NoApplyCall
    /\ observed = InitBase
    /\ committed = {InitBase}
    /\ chain \in BalanceChains
    /\ built = NoBuild
    /\ reply = NoReply
    /\ mempool = {}
    /\ info = NoInfo

CallGetBalance ==
    /\ reply = NoReply
    /\ \E address \in {Nil, Ptr("B")}, addresses \in {<<>>, <<"A">>, <<"A", BadAddress>>},
          fault \in {"none", "CaminoConfig", "GetAllUTXOs"} :
           LET args == [Address |-> address, Addresses |-> addresses, fault |-> fault]
               ret == GetBalance(chain, args, fault)
           IN  reply' = [handler |-> "GetBalance", args |-> args, err |-> ret.err,
                         response |-> ret.response]
    /\ UNCHANGED <<base, diffs, processing, lastAccepted, applied, applyCount, written, nops,
                   published, applyVars, builderVars, mempool, info>>

NextBalance == CallGetBalance

SpecBalance == InitBalance /\ [][NextBalance]_vars

\* ---------------------------------------------------------------------------
\* C39  GetBalance partition (lock mode on): for every asset whose amounts do
\* not overflow, the balance is the sum of the unlocked, bonded, deposited
\* and deposited-bonded amounts, each of which is the sum over the UTXOs of
\* the requested addresses with that lock state (transfer outputs being
\* unlocked); the UTXO id list holds exactly the counted UTXOs, a UTXO of
\* another output type or a locked output without lock ids being neither
\* counted nor listed.
BalanceFields == {"UnlockedOutputs", "BondedOutputs", "DepositedOutputs", "DepositedBondedOutputs"}
BalanceAnswered ==
    /\ reply.handler = "GetBalance"
    /\ reply.err = NoError
    /\ reply.response.LockModeBondDeposit
RequestedAddrs ==
    Elements(reply.args.Addresses)
    \cup (IF reply.args.Address = Nil THEN {} ELSE {Deref(reply.args.Address)})
RequestedUTXOs == SelectSeq(chain.utxos, LAMBDA utxo : utxo.addr \in RequestedAddrs)
CategoryOf(utxo) ==
    IF utxo.out.type = "secp256k1fx.TransferOutput" THEN "UnlockedOutputs"
    ELSE IF utxo.out.type # "locked.Out" THEN "none"
    ELSE IF LockState(utxo.out.IDs) = StateBonded THEN "BondedOutputs"
    ELSE IF LockState(utxo.out.IDs) = StateDeposited THEN "DepositedOutputs"
    ELSE IF LockState(utxo.out.IDs) = StateDepositedBonded THEN "DepositedBondedOutputs"
    ELSE "none"
RECURSIVE AmountIn(_, _, _)
AmountIn(utxos, assetID, fields) ==
    IF utxos = <<>> THEN 0
    ELSE (IF Head(utxos).asset = assetID /\ CategoryOf(Head(utxos)) \in fields
          THEN Head(utxos).out.amount ELSE 0)
         + AmountIn(Tail(utxos), assetID, fields)
Counted(utxos) == SelectSeq(utxos, LAMBDA utxo : CategoryOf(utxo) # "none")

C39_BalancePartition ==
    BalanceAnswered =>
        LET camino == reply.response.camino
        IN  /\ \A assetID \in AssetIDs :
                  AmountIn(RequestedUTXOs, assetID, BalanceFields) <= MaxUint64 =>
                      /\ AmountOf(camino.Balances, assetID) =
                             AmountOf(camino.UnlockedOutputs, assetID)
                             + AmountOf(camino.BondedOutputs, assetID)
                             + AmountOf(camino.DepositedOutputs, assetID)
                             + AmountOf(camino.DepositedBondedOutputs, assetID)
                      /\ \A field \in BalanceFields :
                             AmountOf(camino[field], assetID) =
                                 AmountIn(RequestedUTXOs, assetID, {field})
            /\ camino.UTXOIDs = [i \in DOMAIN Counted(RequestedUTXOs) |->
                                    Counted(RequestedUTXOs)[i].id]

\* Three UTXOs of the requested address: a transfer output, a deposited
\* output and an output of another type; the first two are counted and
\* listed.
C39_Witness ==
    /\ BalanceAnswered
    /\ Len(RequestedUTXOs) = 3
    /\ RequestedUTXOs[1].out.type = "stakeable.LockOut"
    /\ reply.response.camino.UTXOIDs = <<2, 3>>
    /\ reply.response.camino.Balances = ("avax" :> 41)
    /\ reply.response.camino.UnlockedOutputs = ("avax" :> 1)
    /\ reply.response.camino.DepositedOutputs = ("avax" :> 40)

\* ---------------------------------------------------------------------------
\* C40  GetAllDepositOffers on a diff returns each offer id at most once:
\* every list it may return holds the offers set in the diff and the offers
\* of the parent whose id the diff has not set, so for an id set in the diff
\* and known to the parent only the diff's version is listed, and an offer
\* is listed exactly when GetDepositOffer returns it for its id.
OffersSetIn(d) ==
    {Deref(diffs[d].caminoDiff.modifiedDepositOffers[id]) :
        id \in DOMAIN diffs[d].caminoDiff.modifiedDepositOffers}
NotSetIn(d, offers) ==
    {offer \in offers : offer.ID \notin DOMAIN diffs[d].caminoDiff.modifiedDepositOffers}
AgreesWithGetDepositOffer(d, offers) ==
    \A offerID \in OfferIDs :
        LET one == GetDepositOffer(d, offerID)
        IN  IF one.err = ErrNil
            THEN {offer \in Elements(offers) : offer.ID = offerID} = {Deref(one.val)}
            ELSE {offer \in Elements(offers) : offer.ID = offerID} = {}

C40_AllDepositOffersOnce ==
    \A d \in DOMAIN diffs :
        GetAllDepositOffers(d).err = ErrNil =>
            /\ GetAllDepositOffers(d).offers # {}
            /\ \A offers \in GetAllDepositOffers(d).offers :
                  /\ \A i, j \in DOMAIN offers : offers[i].ID = offers[j].ID => i = j
                  /\ \E parentOffers \in GetAllDepositOffers(GetState(diffs[d].parentID)).offers :
                         Elements(offers) =
                             OffersSetIn(d) \cup NotSetIn(d, Elements(parentOffers))
                  /\ AgreesWithGetDepositOffer(d, offers)

\* The accepted state holds offers o1 and o2; a diff on it has set o1 with
\* other flags: its list has two entries, the diff's o1 and the state's o2.
C40_Witness ==
    \E d \in DOMAIN diffs :
        /\ GetState(diffs[d].parentID) = BaseState
        /\ DOMAIN base.depositOffers = {"o1", "o2"}
        /\ DOMAIN diffs[d].caminoDiff.modifiedDepositOffers = {"o1"}
        /\ Deref(diffs[d].caminoDiff.modifiedDepositOffers["o1"]) # base.depositOffers["o1"]
        /\ GetAllDepositOffers(d).offers =
               {<<Deref(diffs[d].caminoDiff.modifiedDepositOffers["o1"]),
                  base.depositOffers["o2"]>>}

=============================================================================
